---- MODULE Spec2Model ----
(***************************************************************************)
(* CodeSnap: the file selection pipeline of src/index.ts (main), the       *)
(* discovery, reading and scoring helpers of src/utils/file-utils.ts and   *)
(* the formatter (formatFileContent, createCodeSummary).                   *)
(*                                                                         *)
(* A path is a record [dir, base, ext]: dir is the directory part with a   *)
(* trailing slash ("" for the root), base is path.basename, ext is         *)
(* path.extname of the base.  A content is a sequence of lines, each line  *)
(* a record [kind, len]: len is the number of UTF-16 code units of the     *)
(* line and kind says which of the patterns the code looks for the line    *)
(* holds.  Time is counted in hours.                                       *)
(***************************************************************************)
EXTENDS Integers, Sequences, FiniteSets, TLC

VARIABLES
  pc,               \* position of main(): the stage that has completed
  opts,             \* what commander hands to setupProgram (program.opts())
  options,          \* the ProgramOptions record main() works with
  disk,             \* the project tree: sequence of files in glob order
  now,              \* Date.now(), in hours
  files,            \* result of findFiles
  readableFiles,    \* main(): survivors of pass 1
  fileStats,        \* main(): FileStat of every survivor, index-aligned
  skippedCount,     \* main(): files dropped in pass 1 for their size
  sortedIndices,    \* main(): the pass-1 order, cut to maxFiles
  pos,              \* main(): how many entries of sortedIndices pass 2 has handled
  totalSize,        \* main(): running total of pass 2
  skippedFiles,     \* main(): skip counter of pass 2
  fileContents,     \* main(): contents pushed by pass 2
  finalFiles,       \* main(): the Reader's output
  finalContents,
  finalStats,
  processedFiles,   \* main(): what goes on to the Assembler
  processedContents,
  processedStats,
  scoredFiles,      \* prioritizeFiles: the scored files after the sort
  totalChars,       \* prioritizeFiles: the charged total of the budget walk
  scoreLog,         \* the scores prioritizeFiles computed, in sorted order
  output,           \* formatOutput: the rendered sections
  reads,            \* history: content reads, [path, by] records with a count
  readIdx,          \* history: indices (into readableFiles) pass 2 actually read
  bytesRead,        \* history: bytes of file content pass 2 has read
  scored,           \* history: prioritizeFiles has run
  profile           \* the saved profile --load names: <<options>>, or <<>>

vars == <<pc, opts, options, disk, now, files, readableFiles, fileStats,
          skippedCount, sortedIndices, pos, totalSize, skippedFiles,
          fileContents, finalFiles, finalContents, finalStats,
          processedFiles, processedContents, processedStats, scoredFiles,
          totalChars, scoreLog, output, reads, readIdx, bytesRead, scored,
          profile>>

(***************************************************************************)
(* Generic helpers                                                         *)
(***************************************************************************)
Min(a, b) == IF a <= b THEN a ELSE b

Max(a, b) == IF a >= b THEN a ELSE b

\* Math.ceil(n / d) for n >= 0, d > 0
CeilDiv(n, d) == (n + d - 1) \div d

\* the sum of a sequence of numbers, by halves to keep the evaluation shallow
RECURSIVE SumSeq(_)
SumSeq(s) ==
  IF s = <<>> THEN 0
  ELSE IF Len(s) = 1 THEN s[1]
  ELSE LET half == Len(s) \div 2 IN
       SumSeq(SubSeq(s, 1, half)) + SumSeq(SubSeq(s, half + 1, Len(s)))

SeqMap(Op(_), s) == [i \in 1..Len(s) |-> Op(s[i])]

\* Array.prototype.filter: the elements that pass, in order; by halves to
\* keep the evaluation shallow
RECURSIVE SeqFilter(_, _)
SeqFilter(Keep(_), s) ==
  IF s = <<>> THEN <<>>
  ELSE IF Len(s) = 1 THEN (IF Keep(s[1]) THEN s ELSE <<>>)
  ELSE LET half == Len(s) \div 2 IN
       SeqFilter(Keep, SubSeq(s, 1, half))
         \o SeqFilter(Keep, SubSeq(s, half + 1, Len(s)))

Range(s) == {s[i] : i \in 1..Len(s)}

\* a sequence with its elements evaluated once
Eager(s) == s \o <<>>

\* Array.prototype.slice(0, n): a negative n counts from the end
Slice0(s, n) ==
  SubSeq(s, 1, IF n < 0 THEN Max(Len(s) + n, 0) ELSE Min(Len(s), n))

\* Array.prototype.slice(-n)
SliceLast(s, n) == SubSeq(s, Max(1, Len(s) - n + 1), Len(s))

(***************************************************************************)
(* Pattern catalog (utils/constants.ts), restricted where a list is only   *)
(* ever compared with basenames to the entries themselves.                 *)
(***************************************************************************)
HIGH_PRIORITY_FILES ==
  {"package.json", "composer.json", "go.mod", "Cargo.toml", "Gemfile",
   "requirements.txt", "pyproject.toml", "build.gradle", "pom.xml",
   "tsconfig.json", "webpack.config.js", "rollup.config.js", "vite.config.js",
   "jest.config.js", "babel.config.js", ".eslintrc", ".eslintrc.js",
   ".eslintrc.json", "docker-compose.yml", "Dockerfile", "kubernetes.yaml",
   "k8s.yaml", "README.md", "CONTRIBUTING.md", "LICENSE", "CHANGELOG.md",
   ".gitignore", ".gitattributes", "settings.gradle", "build.sbt", "mix.exs",
   "CMakeLists.txt", "meson.build", "deno.json", "angular.json",
   "nuxt.config.js", "svelte.config.js", "gatsby-config.js",
   "astro.config.mjs", "tailwind.config.js", "postcss.config.js",
   "main.tf", "variables.tf", "outputs.tf", "providers.tf", "backend.tf",
   "versions.tf", "terraform.tfvars", "Chart.yaml", "values.yaml",
   "kustomization.yaml", "serverless.yml", "cloudformation.yaml",
   "ansible.cfg", "playbook.yml", "inventory"}

\* CONFIG_FILE_CATEGORIES.ENTRY_POINTS: patterns without a slash, which
\* minimatch compares with the whole relative path
ENTRY_POINT_NAMES ==
  {"main.js", "index.js", "app.js", "server.js", "main.py", "app.py",
   "__main__.py", "Main.java", "Program.cs", "main.go"}

NO_EXTENSION_IMPORTANT_FILES ==
  {"Dockerfile", "Makefile", "Jenkinsfile", "docker-compose",
   "docker-compose.override", ".gitignore", ".editorconfig", "Vagrantfile",
   "Brewfile", "Procfile", "nginx.conf"}

DEFAULT_INCLUDE_FILES ==
  {"package.json", "composer.json", "go.mod", "Cargo.toml", "Gemfile",
   "requirements.txt", "pyproject.toml", "build.gradle", "pom.xml",
   "tsconfig.json", "webpack.config.js", "rollup.config.js", "vite.config.js",
   "jest.config.js", "babel.config.js", ".eslintrc", ".eslintrc.js",
   ".eslintrc.json", "docker-compose.yml", "Dockerfile", "kubernetes.yaml",
   "k8s.yaml", "README.md", "CONTRIBUTING.md", "LICENSE", "CHANGELOG.md",
   ".gitignore", ".gitattributes"}
    \cup ENTRY_POINT_NAMES
    \cup {"main.tf", "variables.tf", "outputs.tf", "providers.tf",
          "backend.tf", "versions.tf", "terraform.tfvars", "Chart.yaml",
          "values.yaml", "kustomization.yaml", "serverless.yml",
          "cloudformation.yaml", "ansible.cfg", "playbook.yml", "inventory"}
    \cup NO_EXTENSION_IMPORTANT_FILES

IMPORTANT_FOLDERS ==
  {"src/", "app/", "lib/", "core/", "api/", "controllers/", "models/",
   "services/", "utils/", "helpers/", "components/", "hooks/", "store/",
   "context/", "reducers/", "actions/", "middleware/", "providers/"}

MAX_TOTAL_FILES == 1000000

SMALL_FILE_PREFERENCE_THRESHOLD == 50 * 1024

(***************************************************************************)
(* Paths                                                                   *)
(***************************************************************************)
\* the first path segment of a directory, with its slash: what
\* file.startsWith(folder) compares with an IMPORTANT_FOLDERS entry
FirstSegment(dir) ==
  CASE dir = "src/__tests__/" -> "src/"
    [] dir = "src/generated/" -> "src/"
    [] OTHER -> dir

\* String.prototype.toLowerCase on the basenames that have capitals
ToLowerCase(base) ==
  CASE base = "README.md" -> "readme.md"
    [] base = "Dockerfile" -> "dockerfile"
    [] OTHER -> base

\* minimatch(file, pattern) for some pattern of ENTRY_POINT_PATTERNS
MatchesEntryPoint(file) ==
  \/ file.dir = "" /\ file.base \in ENTRY_POINT_NAMES
  \/ file.dir = "src/" /\ file.base \in {"index.ts", "index.js", "main.ts", "app.ts"}
  \/ file.dir = "cmd/" /\ file.base = "main.go"

StartsWithImportantFolder(file) == FirstSegment(file.dir) \in IMPORTANT_FOLDERS

\* file.includes("/generated/") || "/dist/" || "/build/": a directory
\* segment that is not the first one
InGeneratedDir(file) == file.dir \in {"src/generated/"}

InTestDir(file) == file.dir \in {"src/__tests__/"}

\* basename.includes(".test.") || basename.includes(".spec.")
IsTestName(base) == base \in {"a.test.ts", "a.spec.ts"}

\* basename.includes(".min.")
IsMinName(base) == base \in {"lib.min.js"}

\* basename.includes(".generated.") || basename.includes(".gen.")
IsGeneratedName(base) == base \in {"api.generated.ts", "api.gen.ts"}

(***************************************************************************)
(* Contents                                                                *)
(***************************************************************************)
Line(kind, len) == [kind |-> kind, len |-> len]

\* content.length: the lines joined by "\n"
ContentLength(content) ==
  IF content = <<>> THEN 0
  ELSE SumSeq([i \in 1..Len(content) |-> content[i].len]) + Len(content) - 1

CountKind(content, kinds) ==
  Cardinality({i \in 1..Len(content) : content[i].kind \in kinds})

\* JavaScript truthiness of an optional string option
Truthy(s) == s \notin {"undef", ""}

\* parseInt of the decimal option strings the model uses
ParseInt(s) ==
  CASE s = "0" -> 0
    [] s = "1" -> 1
    [] s = "2" -> 2
    [] s = "7" -> 7
    [] s = "50" -> 50
    [] s = "200" -> 200
    [] s = "500" -> 500
    [] s = "1000" -> 1000
    [] s = "6000" -> 6000
    [] s = "100000" -> 100000

(***************************************************************************)
(* The project tree.  A file on disk is a record                           *)
(*   [path, size, content, readable, mtime, ignored]:                      *)
(* size is stat.size in bytes, content is the text of the file, which      *)
(* readFileSync(p, "utf8") decodes (its length is below size when the text *)
(* has multi-byte characters; a line of kind "invalid" is made of bytes    *)
(* that are no UTF-8), readable is FALSE when the read throws (EACCES)     *)
(* although                                                                *)
(* the stat succeeds, mtime is stat.mtimeMs in hours, ignored says whether *)
(* a pattern of the root .gitignore matches the path.                      *)
(***************************************************************************)
Path(dir, base, ext) == [dir |-> dir, base |-> base, ext |-> ext]

\* the root directory named on the command line can be listed; "locked/" is
\* a directory the user may not read
RootReadable(o) == o.directory # "locked/"

\* what glob.sync and fs.existsSync see under options.directory: nothing
\* under a root that cannot be listed
Listing(o, d) == IF RootReadable(o) THEN d ELSE <<>>

\* fs.statSync(path.join(options.directory, file)): the file record, or
\* the empty sequence when the stat throws
StatSync(d, file) ==
  IF \E i \in 1..Len(d) : d[i].path = file
  THEN <<d[CHOOSE i \in 1..Len(d) : d[i].path = file]>>
  ELSE <<>>

(***************************************************************************)
(* prioritizeFiles (utils/file-utils.ts)                                   *)
(***************************************************************************)
TopK == 10

SummaryEstimate == 1500

importantExtensions(ext) ==
  CASE ext = ".md" -> 30
    [] ext \in {".json", ".yml", ".yaml", ".ts", ".tsx", ".tfvars", ".hcl"} -> 25
    [] ext \in {".js", ".jsx", ".py", ".go", ".java", ".rb", ".tpl"} -> 20
    [] ext = ".tf" -> 30
    [] OTHER -> 0

\* lines 855-875: the size-shape terms
SizeScore(size) ==
  Max(0, 50 - (size \div 1000))
  + (IF size > 100 * 1024 THEN -50 ELSE 0)
  + (IF size < 100 THEN -20 ELSE 0)
  + (IF size > 500 /\ size < 10 * 1024 THEN 20 ELSE 0)

\* lines 877-902: imports, definitions and architecture markers
CodeQualityScore(content) ==
  Min(20, CountKind(content, {"import"}) * 2)
  + Min(20, CountKind(content, {"def"}))
  + (IF CountKind(content, {"export"}) > 0 THEN 15 ELSE 0)

\* lines 904-917: with options.recent falsy the file is stat-ed again and
\* its age is taken against the clock of the moment
RecencyScoreAlways(file, o, t, d) ==
  LET st == StatSync(d, file) IN
  IF st = <<>> THEN 0
  ELSE LET ageHours == t - st[1].mtime IN
       IF ageHours < 14 * 24 THEN Max(0, 30 - (ageHours \div 12)) ELSE 0

RecencyScore(file, o, t, d) ==
  IF ~Truthy(o.recent) THEN RecencyScoreAlways(file, o, t, d) ELSE 0

\* lines 919-941
InfraScore(file, content, o) ==
  IF o.mode = "infra" \/ o.infrastructure
  THEN IF file.ext \in {".tf", ".tfvars", ".hcl"} THEN 100
       ELSE IF file.ext \in {".yaml", ".yml"}
            THEN (IF CountKind(content, {"k8s"}) > 0 THEN 80 ELSE 0)
       ELSE IF file.base = "Dockerfile" \/ file.base \in {"docker-compose.yml"}
            THEN 70
       ELSE IF file.ext \in {".tpl", ".tmpl", ".j2"} THEN 60
       ELSE 0
  ELSE 0

\* lines 943-967
Penalties(file) ==
  (IF IsGeneratedName(file.base) \/ InGeneratedDir(file) THEN -80 ELSE 0)
  + (IF IsMinName(file.base) THEN -100 ELSE 0)
  + (IF IsTestName(file.base) \/ InTestDir(file) THEN -40 ELSE 0)

\* lines 790-970: the score of one (file, content, stats) triple
Score(file, content, stats, o, t, d) ==
  (IF ToLowerCase(file.base) \in {"readme.md", "contributing.md", "setup.md"}
   THEN 200 ELSE 0)
  + (IF file.base \in HIGH_PRIORITY_FILES THEN 150 ELSE 0)
  + (IF MatchesEntryPoint(file) THEN 100 ELSE 0)
  + (IF StartsWithImportantFolder(file) THEN 50 ELSE 0)
  + importantExtensions(file.ext)
  + SizeScore(stats.size)
  + CodeQualityScore(content)
  + RecencyScore(file, o, t, d)
  + InfraScore(file, content, o)
  + Penalties(file)

\* Array.prototype.sort with a comparator: stable (ES2019; the package asks
\* for node >= 14).  With a consistent comparator the element at index i
\* lands behind every element that compares smaller and behind every
\* earlier element that compares equal.
SortRank(s, i, Cmp(_, _)) ==
  Cardinality({j \in 1..Len(s) :
                 \/ Cmp(s[j], s[i]) < 0
                 \/ Cmp(s[j], s[i]) = 0 /\ j < i}) + 1

StableSort(s, Cmp(_, _)) ==
  LET rank == Eager([i \in 1..Len(s) |-> SortRank(s, i, Cmp)]) IN
  Eager([k \in 1..Len(s) |-> s[CHOOSE i \in 1..Len(s) : rank[i] = k]])

\* line 973: (a, b) => b.score - a.score
ByScoreDesc(a, b) == b.score - a.score

\* lines 768-787: arrays of different lengths are cut to the shortest
MinLength(fs, cs, ss) == Min(Len(fs), Min(Len(cs), Len(ss)))

\* a descending sort that puts the later of two equal elements first
SortByScoreLaterFirst(sf) ==
  StableSort([i \in 1..Len(sf) |-> sf[Len(sf) + 1 - i]], ByScoreDesc)

\* lines 972-973
SortByScore(sf) == StableSort(sf, ByScoreDesc)

\* lines 790-973
ScoredFiles(fs, cs, ss, o, t, d) ==
  LET n == MinLength(fs, cs, ss) IN
  SortByScore(Eager([i \in 1..n |->
                       [file |-> fs[i], content |-> cs[i], stats |-> ss[i],
                        score |-> Score(fs[i], cs[i], ss[i], o, t, d)]]))

\* line 976
BudgetInEffect(o) == Truthy(o.tokens) /\ o.tokenLimitChars > 0

\* line 982
CriticalFilesShort(sf) == Slice0(sf, TopK - 1)

CriticalFiles(sf) == Slice0(sf, TopK)

SizeSum(sf) == SumSeq([i \in 1..Len(sf) |-> sf[i].stats.size])

\* line 984: the top files are charged
InitialCharsUncharged(critical) == 0

InitialChars(critical) == SizeSum(critical)

\* lines 989-999: what admitting a file of this size charges to the running
\* total, or -1 when the file is not admitted
ChargeWhateverTheFlags(total, size, o) ==
  IF total + size <= o.tokenLimitChars THEN size
  ELSE IF total + Min(size, SummaryEstimate) <= o.tokenLimitChars
       THEN Min(size, SummaryEstimate)
       ELSE -1

\* a walk that admits at the estimate and charges the true size
ChargeTrueSize(total, size, o) ==
  IF total + size <= o.tokenLimitChars THEN size
  ELSE IF (o.summarizeLargeFiles \/ o.truncateLargeFiles)
          /\ total + Min(size, SummaryEstimate) <= o.tokenLimitChars
       THEN size
       ELSE -1

Charge(total, size, o) ==
  LET estimatedSize == Min(size, SummaryEstimate) IN
  IF total + size <= o.tokenLimitChars THEN size
  ELSE IF (o.summarizeLargeFiles \/ o.truncateLargeFiles)
          /\ total + estimatedSize <= o.tokenLimitChars
       THEN estimatedSize
       ELSE -1

\* lines 987-1000: the walk over the files ranked beyond the critical ones;
\* acc is [kept, total]
RECURSIVE BudgetWalk(_, _, _, _)
BudgetWalk(sf, i, acc, o) ==
  IF i > Len(sf) THEN acc
  ELSE LET charge == Charge(acc.total, sf[i].stats.size, o) IN
       IF charge >= 0
       THEN BudgetWalk(sf, i + 1,
              [kept |-> Append(acc.kept, sf[i]),
               total |-> acc.total + charge], o)
       ELSE BudgetWalk(sf, i + 1, acc, o)

\* a Fitter that leaves out the files with a negative score
FitBudgetPositiveOnly(sf, o) ==
  LET positive == SeqFilter(LAMBDA x : x.score >= 0, sf)
      critical == CriticalFiles(positive)
  IN IF BudgetInEffect(o)
     THEN BudgetWalk(positive, Len(critical) + 1,
                     [kept |-> critical, total |-> InitialChars(critical)], o)
     ELSE [kept |-> positive, total |-> 0]

\* lines 975-1011
FitBudget(sf, o) ==
  IF BudgetInEffect(o)
  THEN LET critical == CriticalFiles(sf) IN
       BudgetWalk(sf, Len(critical) + 1,
                  [kept |-> critical, total |-> InitialChars(critical)], o)
  ELSE [kept |-> sf, total |-> 0]

\* lines 761-1023
prioritizeFiles(fs, cs, ss, o, t, d) ==
  LET sf == ScoredFiles(fs, cs, ss, o, t, d)
      fit == FitBudget(sf, o)
  IN [files |-> Eager([i \in 1..Len(fit.kept) |-> fit.kept[i].file]),
      fileContents |-> Eager([i \in 1..Len(fit.kept) |-> fit.kept[i].content]),
      fileStats |-> Eager([i \in 1..Len(fit.kept) |-> fit.kept[i].stats]),
      scoredFiles |-> sf,
      totalChars |-> fit.total]

(***************************************************************************)
(* Options (src/index.ts)                                                  *)
(***************************************************************************)
\* program.opts() with no argument given: commander's defaults (lines
\* 633-685); "undef" is a string option that was not supplied, FALSE a flag
\* that is absent, 0 a number that is absent, <<>> a list that is absent
\* (a list that is present is <<S>>, S the set of its entries)
DefaultOpts ==
  [mode |-> "auto", limit |-> "50", tokens |-> "100000", maxFileSize |-> "500",
   security |-> "auto", recent |-> "undef", maxFiles |-> 0,
   limitBytes |-> 0, tokenLimitChars |-> 0, maxFileSizeBytes |-> 0,
   infrastructure |-> FALSE, autoDetect |-> FALSE, smart |-> FALSE,
   optimizeTokens |-> FALSE, stripComments |-> FALSE,
   summarizeLargeFiles |-> FALSE, truncateLargeFiles |-> FALSE,
   redactCredentials |-> FALSE, showRedacted |-> FALSE,
   respectGitignore |-> FALSE, skipBinary |-> FALSE, forceUtf8 |-> FALSE,
   scanAll |-> FALSE, dryRun |-> FALSE, listOnly |-> FALSE,
   extensions |-> <<>>, files |-> <<>>, exclude |-> <<>>,
   directory |-> "."]

\* lines 763-774
InfraModeExtensions ==
  {".tf", ".tfvars", ".hcl", ".yaml", ".yml", ".json", ".tpl", ".tmpl", ".j2",
   "Dockerfile"}

\* lines 710-733: the switch on opts.mode
ModeOptions(o) ==
  CASE o.mode = "infra" ->
         [o EXCEPT !.infrastructure = TRUE, !.autoDetect = TRUE,
                   !.optimizeTokens = TRUE, !.redactCredentials = TRUE]
    [] o.mode = "doc" ->
         [o EXCEPT !.stripComments = FALSE, !.summarizeLargeFiles = FALSE]
    [] o.mode = "code" ->
         [o EXCEPT !.stripComments = TRUE, !.summarizeLargeFiles = TRUE,
                   !.optimizeTokens = TRUE]
    [] OTHER ->
         [o EXCEPT !.autoDetect = TRUE, !.smart = TRUE,
                   !.optimizeTokens = TRUE, !.summarizeLargeFiles = TRUE]

\* lines 736-752: the switch on opts.security
SecurityOptions(o) ==
  CASE o.security = "strict" ->
         [o EXCEPT !.redactCredentials = TRUE, !.showRedacted = TRUE,
                   !.respectGitignore = TRUE]
    [] o.security = "none" ->
         [o EXCEPT !.redactCredentials = FALSE, !.showRedacted = FALSE]
    [] OTHER ->
         [o EXCEPT !.redactCredentials = TRUE, !.showRedacted = FALSE,
                   !.respectGitignore = TRUE]

\* lines 694-778
processCommandLineOptions(o) ==
  LET limit == IF Truthy(o.limit) THEN o.limit ELSE "50"
      tokens == IF Truthy(o.tokens) THEN o.tokens ELSE "100000"
      maxFileSize == IF Truthy(o.maxFileSize) THEN o.maxFileSize ELSE "500"
      base == [o EXCEPT !.limit = limit, !.tokens = tokens,
                        !.limitBytes = ParseInt(limit) * 1024,
                        !.tokenLimitChars = ParseInt(tokens) * 4,
                        !.maxFileSizeBytes = ParseInt(maxFileSize) * 1024]
      derived == [SecurityOptions(ModeOptions(base))
                    EXCEPT !.skipBinary = TRUE, !.forceUtf8 = TRUE]
  IN IF o.mode = "infra" /\ o.extensions = <<>>
     THEN [derived EXCEPT !.extensions = <<InfraModeExtensions>>]
     ELSE derived

(***************************************************************************)
(* Extension lists (utils/constants.ts)                                    *)
(***************************************************************************)
BINARY_EXTENSIONS ==
  {".jpg", ".jpeg", ".png", ".gif", ".bmp", ".tiff", ".ico", ".svg", ".webp",
   ".mp3", ".wav", ".ogg", ".flac", ".aac", ".m4a",
   ".mp4", ".webm", ".avi", ".mov", ".wmv", ".flv", ".mkv",
   ".dll", ".so", ".dylib", ".a", ".lib", ".obj", ".o", ".class", ".pyc",
   ".pyo", ".exe",
   ".zip", ".tar", ".gz", ".7z", ".rar", ".bz2", ".xz",
   ".pdf", ".doc", ".docx", ".xls", ".xlsx", ".ppt", ".pptx",
   ".db", ".sqlite", ".sqlite3", ".mdb", ".dat", ".bin",
   ".ttf", ".otf", ".woff", ".woff2", ".eot",
   ".dmg", ".iso", ".img",
   ".min.js", ".min.css", ".map"}

CODE_EXTENSIONS ==
  {".js", ".jsx", ".ts", ".tsx", ".vue", ".mjs", ".cjs",
   ".py", ".rb", ".go", ".java", ".php", ".rs", ".c", ".cpp", ".h", ".cs",
   ".swift", ".kt",
   ".html", ".css", ".scss", ".sass", ".less", ".svelte",
   ".json", ".yml", ".yaml", ".toml", ".xml", ".ini", ".env.example",
   ".env.sample",
   ".md", ".markdown", ".txt", ".rst",
   ".sh", ".bash", ".zsh", ".fish", ".ps1"}

EXPANDED_CODE_EXTENSIONS ==
  CODE_EXTENSIONS \cup
  {".tf", ".tfvars", ".hcl", ".nomad", ".pkr.hcl",
   "Dockerfile", "docker-compose.yml", "docker-compose.yaml", ".dockerignore",
   ".yaml", ".yml", ".helmignore", "Chart.yaml", "values.yaml",
   ".tpl", ".tmpl", ".j2", ".template", ".gotmpl", ".erb",
   ".conf", ".config", ".properties", ".ini", ".env", ".env.example",
   ".env.sample", ".toml"}

DEFAULT_INCLUDE_EXTS == EXPANDED_CODE_EXTENSIONS

\* the literal entries of DEFAULT_EXCLUDE_FILES
DEFAULT_EXCLUDE_NAMES ==
  {"package-lock.json", "yarn.lock", "pnpm-lock.yaml", "composer.lock",
   "Cargo.lock", "Gemfile.lock"}

\* minimatch(basename, pattern) for a wildcard entry of DEFAULT_EXCLUDE_FILES
\* ("*.min.js", "*.d.ts", "*.generated.*", ...)
MatchesExcludeWildcard(base) ==
  IsMinName(base) \/ base \in {"api.generated.ts", "types.d.ts", "dump.sql"}

\* isLikelyBinaryFile, lines 40-43; the extensions of the model are lower case
isLikelyBinaryFile(file) == file.ext \in BINARY_EXTENSIONS

(***************************************************************************)
(* Reading                                                                 *)
(***************************************************************************)
\* bytes of a line in UTF-8: a "nonascii" line is made of two-byte characters
LineBytes(line) == IF line.kind = "nonascii" THEN 2 * line.len ELSE line.len

ByteLength(content) ==
  IF content = <<>> THEN 0
  ELSE SumSeq([i \in 1..Len(content) |-> LineBytes(content[i])])
       + Len(content) - 1

DiskFile(path, content, readable, mtime) ==
  [path |-> path, size |-> ByteLength(content), content |-> content,
   readable |-> readable, mtime |-> mtime, ignored |-> FALSE]

\* the same file with a pattern of the root .gitignore matching its path
GitIgnoredFile(f) == [f EXCEPT !.ignored = TRUE]

\* characters of the first 500 that are in \x20-\x7E; the line breaks and
\* the characters of a "nonascii" line are not
RECURSIVE PrintableIn(_, _)
PrintableIn(content, room) ==
  IF content = <<>> \/ room <= 0 THEN 0
  ELSE LET taken == Min(Head(content).len, room) IN
       (IF Head(content).kind = "nonascii" THEN 0 ELSE taken)
       + PrintableIn(Tail(content), room - taken - 1)

\* ext.length of the extensions that reach the fallback in the model
ExtLength(ext) ==
  CASE ext = "" -> 0
    [] ext = ".ts" -> 3
    [] ext = ".lua" -> 4
    [] ext = ".proto" -> 6
    [] OTHER -> 4

\* lines 57-80: basename.includes("config"), basename.includes("conf"), the
\* endsWith tests and the exact names
NameLooksLikeConfig(file) ==
  \/ file.base \in {"app.config", "nginx.conf"}
  \/ file.ext \in {".yaml", ".yml", ".json", ".tf", ".tfvars", ".hcl", ".toml",
                   ".ini", ".env", ".tpl", ".tmpl", ".j2", ".template"}
  \/ file.base \in {"Dockerfile", "Makefile", "docker-compose.yml",
                    "docker-compose.yaml"}

\* lines 51-144, called by findFiles with the first 500 characters of the
\* content; an empty sample is falsy and ends in "not code"
isLikelyCodeFile(file, content) ==
  \/ NameLooksLikeConfig(file)
  \/ /\ content # <<>>
     /\ ContentLength(content) > 0
     /\ CountKind(content, {"import", "def", "k8s"}) > 0
  \/ /\ content # <<>>
     /\ ContentLength(content) > 0
     /\ ExtLength(file.ext) > 1
     /\ ~isLikelyBinaryFile(file)
     /\ ExtLength(file.ext) >= 2 /\ ExtLength(file.ext) <= 5
     /\ 10 * PrintableIn(content, 500) > 9 * Min(ContentLength(content), 500)

(***************************************************************************)
(* Project type detection (utils/file-utils.ts)                            *)
(***************************************************************************)
\* lines 256-273: the .json files whose content detection reads, in glob
\* order, up to the first one that looks like a Packer template
\* a .json file whose content detection reads
PackerCandidate(f) ==
  /\ f.path.ext = ".json"
  /\ f.path.base \notin {"package.json", "package-lock.json"}
  /\ f.readable

\* by halves, to keep the evaluation shallow: the reads of the second half
\* follow those of the first unless the first holds a Packer template
RECURSIVE PackerReads(_)
PackerReads(d) ==
  IF d = <<>> THEN <<>>
  ELSE IF Len(d) = 1
  THEN (IF PackerCandidate(d[1]) THEN <<d[1].path>> ELSE <<>>)
  ELSE LET half == Len(d) \div 2 IN
       IF \E i \in 1..half : /\ PackerCandidate(d[i])
                              /\ CountKind(d[i].content, {"packer"}) > 0
       THEN PackerReads(SubSeq(d, 1, half))
       ELSE PackerReads(SubSeq(d, 1, half))
              \o PackerReads(SubSeq(d, half + 1, Len(d)))

HasPkrHcl(d) == \E i \in 1..Len(d) : d[i].path.ext = ".pkr.hcl"

\* lines 199-283
detectInfrastructureProject(d) ==
  LET bases == {d[i].path.base : i \in 1..Len(d)}
      exts == {d[i].path.ext : i \in 1..Len(d)}
      packerReads == IF HasPkrHcl(d) THEN <<>> ELSE PackerReads(d)
  IN [isTerraform |-> exts \cap {".tf", ".tfvars"} # {},
      isKubernetes |-> bases \cap {"deployment.yaml", "service.yaml",
                                   "ingress.yaml", "configmap.yaml",
                                   "secret.yaml", "Chart.yaml"} # {},
      isAnsible |-> bases \cap {"playbook.yml", "ansible.cfg", "inventory"} # {},
      isDocker |-> bases \cap {"Dockerfile", "docker-compose.yml",
                               "docker-compose.yaml"} # {},
      isPacker |-> \/ HasPkrHcl(d)
                   \/ \E i \in 1..Len(d) :
                        /\ d[i].path \in Range(packerReads)
                        /\ CountKind(d[i].content, {"packer"}) > 0,
      reads |-> packerReads]

\* an optional list with entries added to it
WithEntries(list, entries) ==
  IF list = <<>> THEN <<entries>> ELSE <<list[1] \cup entries>>

\* lines 290-374: the options after the adjustment, and the paths read
adjustPrioritiesForProjectType(o, d) ==
  IF o.infrastructure \/ o.mode = "infra"
  THEN [options |->
          [o EXCEPT !.extensions =
             WithEntries(o.extensions,
                         {".tf", ".tfvars", ".hcl", ".yaml", ".yml", ".json",
                          ".tpl", ".j2", "Dockerfile"})],
        reads |-> <<>>]
  ELSE IF o.autoDetect
  THEN LET det == detectInfrastructureProject(d)
           any == det.isTerraform \/ det.isKubernetes \/ det.isAnsible
                  \/ det.isDocker \/ det.isPacker
           e0 == IF o.extensions = <<>> THEN DEFAULT_INCLUDE_EXTS
                 ELSE o.extensions[1]
           e1 == IF det.isTerraform THEN e0 \cup {".tf", ".tfvars", ".hcl"}
                 ELSE e0
           e2 == IF det.isKubernetes /\ ".yaml" \notin e1 /\ ".yml" \notin e1
                 THEN e1 \cup {".yaml", ".yml"} ELSE e1
           e3 == IF det.isAnsible THEN e2 \cup {".yml"} ELSE e2
           e4 == IF det.isPacker THEN e3 \cup {".pkr.hcl"} ELSE e3
       IN [options |->
             IF any
             THEN [o EXCEPT
                     !.extensions = <<e4>>,
                     !.files = IF det.isDocker
                               THEN WithEntries(o.files,
                                      {"Dockerfile", "docker-compose.yml",
                                       "docker-compose.yaml"})
                               ELSE o.files]
             ELSE o,
           reads |-> det.reads]
  ELSE [options |-> o, reads |-> <<>>]

\* main(), lines 851-873: a Terraform root adds its extensions
TerraformRoot(o, d) ==
  IF \E i \in 1..Len(d) :
       d[i].path.dir = "" /\ d[i].path.base \in {"main.tf", "providers.tf"}
  THEN [o EXCEPT !.extensions =
          <<(IF o.extensions = <<>> THEN DEFAULT_INCLUDE_EXTS
             ELSE o.extensions[1]) \cup {".tf", ".tfvars", ".tpl"}>>]
  ELSE o

(***************************************************************************)
(* findFiles (utils/file-utils.ts, lines 382-620)                          *)
(***************************************************************************)
BATCH_SIZE == 1000

SniffLimit == 100

SniffMaxSize == 100 * 1024

\* an ignore list with the version-control directory alone
IgnoredByGlobVcsOnly(file) == file.dir \in {".git/"}

\* lines 392-395 and 424-435: the directories glob does not descend into
IgnoredByGlob(file) ==
  file.dir \in {"node_modules/", ".git/", "dist/", "build/", "docs/"}

\* lines 399-421 and 535: ig.ignores(file) for the ignore instance built
\* from the root .gitignore, as the set of the paths it reports ignored
GitIgnored(d) == {d[i].path : i \in {j \in 1..Len(d) : d[j].ignored}}

\* lines 438-444: the cutoff of --recent as <<cutoff>>, or <<>> when there
\* is none; a day is 24 hours
RecentFilter(o, t) ==
  IF Truthy(o.recent) /\ ParseInt(o.recent) > 0
  THEN <<t - 24 * ParseInt(o.recent)>>
  ELSE <<>>

\* lines 447-452
ExtensionsSet(o) ==
  IF o.extensions = <<>> THEN DEFAULT_INCLUDE_EXTS \cup EXPANDED_CODE_EXTENSIONS
  ELSE o.extensions[1]

\* lines 453-456
IncludeFilesSet(o) ==
  (IF o.files = <<>> THEN DEFAULT_INCLUDE_FILES ELSE o.files[1])
    \cup NO_EXTENSION_IMPORTANT_FILES

\* lines 471-486
IsExcluded(file, o) ==
  IF o.exclude = <<>>
  THEN file.base \in DEFAULT_EXCLUDE_NAMES \/ MatchesExcludeWildcard(file.base)
  ELSE file.base \in o.exclude[1]

\* line 504: basename.includes(name) for a NO_EXTENSION_IMPORTANT_FILES name
IncludesNoExtensionName(base) ==
  base \in NO_EXTENSION_IMPORTANT_FILES \cup {"Dockerfile.dev", "docker-compose.yml"}

\* lines 467-580: the filter callback for one file f of the tree; accepted
\* is filteredFiles.length, which grows only between batches.  The result
\* says whether the file is kept and whether its content was read.
FilterFile(f, o, t, accepted, ignored) ==
  LET file == f.path
      recentFilter == RecentFilter(o, t)
      recentOk == recentFilter = <<>> \/ f.mtime >= recentFilter[1]
      No == [keep |-> FALSE, read |-> FALSE]
      Yes == [keep |-> TRUE, read |-> FALSE]
  IN
  IF IsExcluded(file, o) THEN No
  ELSE IF file.base \in IncludeFilesSet(o)
       THEN [keep |-> recentOk, read |-> FALSE]
  ELSE IF IncludesNoExtensionName(file.base) THEN Yes
  ELSE IF file.base \in HIGH_PRIORITY_FILES THEN Yes
  ELSE IF MatchesEntryPoint(file) THEN Yes
  ELSE IF StartsWithImportantFolder(file) /\ file.ext \in ExtensionsSet(o) THEN Yes
  ELSE IF file.ext \in ExtensionsSet(o)
       THEN IF o.respectGitignore /\ file \in ignored THEN No
            ELSE [keep |-> recentOk, read |-> FALSE]
  ELSE IF (o.scanAll \/ accepted < SniffLimit) /\ ~isLikelyBinaryFile(file)
       THEN IF f.size > SniffMaxSize THEN No
            ELSE IF ~f.readable THEN No
            ELSE [keep |-> isLikelyCodeFile(file, f.content), read |-> TRUE]
  ELSE No

\* lines 464-583: batch after batch; acc is [kept, read]
RECURSIVE FilterBatches(_, _, _, _, _, _)
FilterBatches(all, from, acc, o, t, ignored) ==
  IF from > Len(all) THEN acc
  ELSE LET to == Min(Len(all), from + BATCH_SIZE - 1)
           accepted == Len(acc.kept)
           res == [i \in from..to |-> FilterFile(all[i], o, t, accepted, ignored)]
           kept == SeqFilter(LAMBDA i : res[i].keep,
                             [k \in 1..(to - from + 1) |-> from + k - 1])
           read == SeqFilter(LAMBDA i : res[i].read,
                             [k \in 1..(to - from + 1) |-> from + k - 1])
       IN FilterBatches(all, to + 1,
            [kept |-> acc.kept \o [k \in 1..Len(kept) |-> all[kept[k]].path],
             read |-> acc.read \o [k \in 1..Len(read) |-> all[read[k]].path]],
            o, t, ignored)

\* lines 595-601
IsHighPriorityMatch(file) ==
  file.base \in HIGH_PRIORITY_FILES \/ MatchesEntryPoint(file)

\* lines 585-609
CapFiles(filtered, o) ==
  LET maxFilesToProcess == IF o.maxFiles > 0 THEN o.maxFiles ELSE MAX_TOTAL_FILES
  IN IF Len(filtered) > maxFilesToProcess
     THEN LET high == SeqFilter(IsHighPriorityMatch, filtered)
              rest == SeqFilter(LAMBDA x : ~IsHighPriorityMatch(x), filtered)
          IN high \o Slice0(rest, maxFilesToProcess - Len(high))
     ELSE filtered

\* lines 382-620: the paths returned, and the paths whose content the
\* fallback read; under a root that cannot be listed glob gives nothing or
\* throws, and the catch of lines 613-619 returns the empty list
findFiles(o, d, t, ignored) ==
  LET allFiles == SeqFilter(LAMBDA f : ~IgnoredByGlob(f.path), Listing(o, d))
      acc == FilterBatches(allFiles, 1, [kept |-> <<>>, read |-> <<>>],
                           o, t, ignored)
  IN [files |-> CapFiles(acc.kept, o), reads |-> acc.read]

(***************************************************************************)
(* safeReadFile (utils/file-utils.ts, lines 715-751)                       *)
(***************************************************************************)
\* lines 694-707
isFileTooLarge(f, o) ==
  f.size > (IF o.maxFileSizeBytes > 0 THEN o.maxFileSizeBytes
            ELSE ParseInt(IF Truthy(o.maxFileSize) THEN o.maxFileSize ELSE "500") * 1024)

\* Buffer.toString("utf8"), which readFileSync(p, "utf8") applies: it never
\* throws, every invalid byte becomes one U+FFFD replacement character
Utf8DecodeLine(line) ==
  IF line.kind = "invalid" THEN Line("replacement", line.len) ELSE line

Utf8Decode(content) == SeqMap(Utf8DecodeLine, content)

\* a second read of the content after the first one succeeded
safeReadFileTwice(f, o) ==
  IF o.skipBinary /\ isLikelyBinaryFile(f.path) THEN [content |-> <<>>, success |-> FALSE, reads |-> 0]
  ELSE IF isFileTooLarge(f, o) THEN [content |-> <<>>, success |-> FALSE, reads |-> 0]
  ELSE IF f.readable THEN [content |-> Utf8Decode(f.content), success |-> TRUE, reads |-> 2]
  ELSE [content |-> <<>>, success |-> FALSE, reads |-> 0]

\* the content, the success flag, and how many reads returned the content
safeReadFile(f, o) ==
  IF o.skipBinary /\ isLikelyBinaryFile(f.path)
  THEN [content |-> <<>>, success |-> FALSE, reads |-> 0]
  ELSE IF isFileTooLarge(f, o)
  THEN [content |-> <<>>, success |-> FALSE, reads |-> 0]
  ELSE IF f.readable
  THEN [content |-> Utf8Decode(f.content), success |-> TRUE, reads |-> 1]
  \* lines 735-747: the read threw; without forceUtf8 the file is read a
  \* second time as a buffer, that read throws as the first one did and
  \* the outer catch reports the failure
  ELSE IF ~o.forceUtf8
  THEN [content |-> <<>>, success |-> FALSE, reads |-> 0]
  ELSE [content |-> <<>>, success |-> FALSE, reads |-> 0]

\* safeReadFile on a path: a file that is no longer there makes statSync
\* throw in isFileTooLarge (caught, line 704) and readFileSync throw
ReadPath(d, file, o) ==
  IF StatSync(d, file) = <<>>
  THEN [content |-> <<>>, success |-> FALSE, reads |-> 0]
  ELSE safeReadFile(StatSync(d, file)[1], o)

(***************************************************************************)
(* main() (src/index.ts, lines 827-1233)                                   *)
(***************************************************************************)
\* a read of a path's content, and who did it
ReadBy(path, by) == [path |-> path, by |-> by]

\* the file of the tree with this path; pass 1 has stat-ed it
OnDisk(d, file) == d[CHOOSE i \in 1..Len(d) : d[i].path = file]

\* lines 628-690: program.opts(); commander puts the default of an option
\* that has one where the command line does not give the option
CommanderOpts(cli) ==
  [cli EXCEPT !.limit = IF cli.limit = "undef" THEN "50" ELSE cli.limit,
              !.tokens = IF cli.tokens = "undef" THEN "100000" ELSE cli.tokens,
              !.maxFileSize = IF cli.maxFileSize = "undef" THEN "500"
                              ELSE cli.maxFileSize,
              !.mode = IF cli.mode = "undef" THEN "auto" ELSE cli.mode,
              !.security = IF cli.security = "undef" THEN "auto"
                           ELSE cli.security]

\* the keys of the object setupProgram returns: the options with a default,
\* the keys processCommandLineOptions assigns (lines 694-778), and the
\* options the command line gave
PresentKeys(o) ==
  {"directory", "limit", "tokens", "maxFileSize", "mode", "security",
   "limitBytes", "tokenLimitChars", "maxFileSizeBytes", "listOnly",
   "skipBinary", "forceUtf8"}
  \cup (CASE o.mode = "infra" -> {"infrastructure", "autoDetect",
                                  "optimizeTokens", "redactCredentials",
                                  "extensions"}
          [] o.mode = "doc" -> {"stripComments", "summarizeLargeFiles"}
          [] o.mode = "code" -> {"stripComments", "summarizeLargeFiles",
                                 "optimizeTokens"}
          [] OTHER -> {"autoDetect", "smart", "optimizeTokens",
                       "summarizeLargeFiles"})
  \cup (IF o.security = "none" THEN {"redactCredentials", "showRedacted"}
        ELSE {"redactCredentials", "showRedacted", "respectGitignore"})
  \cup {k \in {"recent"} : o[k] # "undef"}
  \cup {k \in {"maxFiles"} : o[k] # 0}
  \cup {k \in {"extensions", "files", "exclude"} : o[k] # <<>>}
  \cup {k \in {"dryRun", "scanAll", "truncateLargeFiles"} : o[k]}

\* line 835: { ...loadedOptions, ...options }
MergeLoaded(loadedOptions, o) ==
  [k \in DOMAIN o |-> IF k \in PresentKeys(o) THEN o[k] ELSE loadedOptions[k]]

\* lines 828-845: setupProgram, the merge with the loaded profile, and the
\* second processCommandLineOptions
EffectiveOptions(cli, loaded) ==
  LET first == processCommandLineOptions(CommanderOpts(cli))
  IN processCommandLineOptions(
       IF loaded = <<>> THEN first ELSE MergeLoaded(loaded[1], first))

\* lines 828-873: the options are processed twice (setupProgram, then
\* main), adjusted for the project type and for a Terraform root
Configure ==
  /\ pc = "start"
  /\ LET processed == EffectiveOptions(opts, profile)
         seen == Listing(processed, disk)
         adjusted == adjustPrioritiesForProjectType(processed, seen)
     IN /\ options' = TerraformRoot(adjusted.options, seen)
        /\ reads' = reads \o [i \in 1..Len(adjusted.reads) |->
                                ReadBy(adjusted.reads[i], "detect")]
  /\ pc' = "configured"
  /\ UNCHANGED <<opts, disk, now, files, readableFiles, fileStats,
                 skippedCount, sortedIndices, pos, totalSize, skippedFiles,
                 fileContents, finalFiles, finalContents, finalStats,
                 processedFiles, processedContents, processedStats,
                 scoredFiles, totalChars, scoreLog, output, readIdx,
                 bytesRead, scored, profile>>

\* lines 892-897: discovery; no file found ends the run
FindFiles ==
  /\ pc = "configured"
  /\ LET found == findFiles(options, disk, now, GitIgnored(disk)) IN
     /\ files' = found.files
     /\ reads' = reads \o [i \in 1..Len(found.reads) |->
                             ReadBy(found.reads[i], "sniff")]
     /\ pc' = IF found.files = <<>> THEN "nofiles" ELSE "found"
  /\ UNCHANGED <<opts, options, disk, now, readableFiles, fileStats,
                 skippedCount, sortedIndices, pos, totalSize, skippedFiles,
                 fileContents, finalFiles, finalContents, finalStats,
                 processedFiles, processedContents, processedStats,
                 scoredFiles, totalChars, scoreLog, output, readIdx,
                 bytesRead, scored, profile>>

\* lines 906-918
SkipBinaryFilter(fs, o) ==
  IF o.skipBinary THEN SeqFilter(LAMBDA f : ~isLikelyBinaryFile(f), fs) ELSE fs

\* a pass 1 that also drops a file of exactly the maximum size
Pass1KeepsBelowMax(f, o) == f.size < o.maxFileSizeBytes /\ f.size # 0

\* lines 930-967: the files pass 1 keeps
Pass1Keeps(f, o) == f.size <= o.maxFileSizeBytes /\ f.size # 0

\* lines 929-967: one stat per file inside a try/catch; a stat that throws
\* drops the file, a large file is counted, an empty one is dropped
Pass1Loop(fs, d, o) ==
  LET stats == [i \in 1..Len(fs) |-> StatSync(d, fs[i])]
      keptIdx == SeqFilter(LAMBDA i : /\ stats[i] # <<>>
                                      /\ Pass1Keeps(stats[i][1], o),
                           [i \in 1..Len(fs) |-> i])
  IN [readableFiles |-> Eager([k \in 1..Len(keptIdx) |-> fs[keptIdx[k]]]),
      fileStats |-> Eager([k \in 1..Len(keptIdx) |->
                             [path |-> fs[keptIdx[k]],
                              size |-> stats[keptIdx[k]][1].size,
                              tokens |-> CeilDiv(stats[keptIdx[k]][1].size, 4)]]),
      skippedCount |->
        Cardinality({i \in 1..Len(fs) :
                       /\ stats[i] # <<>>
                       /\ stats[i][1].size > o.maxFileSizeBytes})]

\* a comparator that looks at the sizes only
Pass1CmpSizeOnly(rf, st, a, b) == st[a].size - st[b].size

\* lines 972-996: the comparator of the preliminary order, on indices
Pass1Cmp(rf, st, a, b) ==
  LET isConfigA == rf[a].base \in DEFAULT_INCLUDE_FILES
      isConfigB == rf[b].base \in DEFAULT_INCLUDE_FILES
      isSmallA == st[a].size < SMALL_FILE_PREFERENCE_THRESHOLD
      isSmallB == st[b].size < SMALL_FILE_PREFERENCE_THRESHOLD
  IN IF isConfigA /\ ~isConfigB THEN -1
     ELSE IF ~isConfigA /\ isConfigB THEN 1
     ELSE IF isSmallA /\ ~isSmallB THEN -1
     ELSE IF ~isSmallA /\ isSmallB THEN 1
     ELSE st[a].size - st[b].size

\* lines 970-997
SortedIndices(rf, st, o) ==
  Slice0(StableSort([i \in 1..Len(st) |-> i],
                    LAMBDA a, b : Pass1Cmp(rf, st, a, b)),
         IF o.maxFiles > 0 THEN o.maxFiles ELSE MAX_TOTAL_FILES)

\* lines 929-967: the loop of pass 1 stopping at the first stat that throws
Pass1ScanAborting(fs, d, o) ==
  LET failing == {i \in 1..Len(fs) : StatSync(d, fs[i]) = <<>>}
      upto == IF failing = {} THEN Len(fs)
              ELSE (CHOOSE i \in failing : \A j \in failing : i <= j) - 1
  IN Pass1Loop(SubSeq(fs, 1, upto), d, o)

\* lines 929-967: pass 1 over the filtered files
Pass1Scan(fs, d, o) == Pass1Loop(fs, d, o)

\* lines 906-997: the binary filter, pass 1 and the preliminary order
Pass1 ==
  /\ pc = "found"
  /\ LET scan == Pass1Scan(SkipBinaryFilter(files, options), disk, options)
     IN /\ readableFiles' = scan.readableFiles
        /\ fileStats' = scan.fileStats
        /\ skippedCount' = scan.skippedCount
        /\ sortedIndices' =
             SortedIndices(scan.readableFiles, scan.fileStats, options)
  /\ pc' = "pass2"
  /\ UNCHANGED <<opts, options, disk, now, files, pos, totalSize,
                 skippedFiles, fileContents, finalFiles, finalContents,
                 finalStats, processedFiles, processedContents,
                 processedStats, scoredFiles, totalChars, scoreLog, output,
                 reads, readIdx, bytesRead, scored, profile>>

\* line 1009: the size the budget check of pass 2 adds to the running total
Pass2Overflows(total, stat, o) == total + stat.size > o.limitBytes

\* lines 1003-1034: one iteration of pass 2
Pass2Step ==
  /\ pc = "pass2"
  /\ pos < Len(sortedIndices)
  /\ LET index == sortedIndices[pos + 1]
         rd == ReadPath(disk, readableFiles[index], options)
     IN IF Pass2Overflows(totalSize, fileStats[index], options)
        THEN /\ skippedFiles' = skippedFiles + 1
             /\ UNCHANGED <<totalSize, fileContents, fileStats, reads,
                            readIdx, bytesRead>>
        ELSE IF ~rd.success
        THEN /\ skippedFiles' = skippedFiles + 1
             /\ UNCHANGED <<totalSize, fileContents, fileStats, reads,
                            readIdx, bytesRead>>
        ELSE /\ totalSize' = totalSize + ContentLength(rd.content)
             /\ fileContents' = Append(fileContents, rd.content)
             /\ fileStats' = [fileStats EXCEPT ![index].tokens =
                                CeilDiv(ContentLength(rd.content), 4)]
             /\ reads' = reads \o [i \in 1..rd.reads |->
                                     ReadBy(readableFiles[index], "pass2")]
             /\ readIdx' = Append(readIdx, index)
             /\ bytesRead' = bytesRead
                              + OnDisk(disk, readableFiles[index]).size
             /\ UNCHANGED skippedFiles
  /\ pos' = pos + 1
  /\ UNCHANGED <<pc, opts, options, disk, now, files, readableFiles,
                 skippedCount, sortedIndices, finalFiles, finalContents,
                 finalStats, processedFiles, processedContents,
                 processedStats, scoredFiles, totalChars, scoreLog, output,
                 scored, profile>>

\* lines 1036-1053: the final lists
Finalize ==
  /\ pc = "pass2"
  /\ pos = Len(sortedIndices)
  /\ LET n == Min(Len(sortedIndices), Len(fileContents)) IN
     /\ finalFiles' = Eager([i \in 1..n |-> readableFiles[sortedIndices[i]]])
     /\ finalStats' = Eager([i \in 1..n |-> fileStats[sortedIndices[i]]])
  /\ finalContents' = fileContents
  /\ pc' = "read"
  /\ UNCHANGED <<opts, options, disk, now, files, readableFiles, fileStats,
                 skippedCount, sortedIndices, pos, totalSize, skippedFiles,
                 fileContents, processedFiles, processedContents,
                 processedStats, scoredFiles, totalChars, scoreLog, output,
                 reads, readIdx, bytesRead, scored, profile>>

(***************************************************************************)
(* main(), lines 1071-1088: the Scorer/Fitter stage                        *)
(***************************************************************************)
Prioritize ==
  /\ pc = "read"
  /\ options.smart
  /\ LET result == prioritizeFiles(finalFiles, finalContents, finalStats,
                                   options, now, disk)
     IN /\ processedFiles' = result.files
        /\ processedContents' = result.fileContents
        /\ processedStats' = result.fileStats
        /\ scoredFiles' = result.scoredFiles
        /\ totalChars' = result.totalChars
  /\ scored' = TRUE
  /\ pc' = "scored"
  /\ UNCHANGED <<opts, options, disk, now, files, readableFiles, fileStats,
                 skippedCount, sortedIndices, pos, totalSize, skippedFiles,
                 fileContents, finalFiles, finalContents, finalStats,
                 scoreLog, output, reads, readIdx, bytesRead, profile>>

SkipPrioritize ==
  /\ pc = "read"
  /\ ~options.smart
  /\ processedFiles' = finalFiles
  /\ processedContents' = finalContents
  /\ processedStats' = finalStats
  /\ pc' = "scored"
  /\ UNCHANGED <<opts, options, disk, now, files, readableFiles, fileStats,
                 skippedCount, sortedIndices, pos, totalSize, skippedFiles,
                 fileContents, finalFiles, finalContents, finalStats,
                 scoredFiles, totalChars, scoreLog, output, reads, readIdx,
                 bytesRead, scored, profile>>

(***************************************************************************)
(* redactCredentials (utils/security.ts)                                   *)
(***************************************************************************)
\* a "secret" line holds one credential of 20 characters; the credential is
\* replaced by "[REDACTED]".  A "slashsecret" line is a password assignment
\* that ends with the closing quote of a credential of 20 characters whose
\* third and fourth characters are "//"; the password pattern accepts "/"
RedactLine(line) ==
  IF line.kind \in {"secret", "slashsecret"}
  THEN Line("redacted", line.len - 20 + 10)
  ELSE line

redactCredentials(content) == SeqMap(RedactLine, content)

(***************************************************************************)
(* The formatter (utils/formatter.ts)                                      *)
(***************************************************************************)
\* String(n).length
Digits(n) ==
  IF n < 0 THEN 1 + (IF -n < 10 THEN 1 ELSE IF -n < 100 THEN 2 ELSE 3)
  ELSE IF n < 10 THEN 1 ELSE IF n < 100 THEN 2 ELSE IF n < 1000 THEN 3 ELSE 4

IsImportLine(line) == line.kind = "import"

\* a "def" line is a definition with a one-letter name in every language
IsDefinitionLine(line) == line.kind = "def"

\* lines 253-261: the index (from 0) of the last import line the scan sees
RECURSIVE LastImportLine(_, _, _)
LastImportLine(lines, i, last) ==
  IF i >= Min(Len(lines), 30) THEN last
  ELSE IF IsImportLine(lines[i + 1]) THEN LastImportLine(lines, i + 1, i)
  ELSE IF i > 15 /\ last < i - 5 THEN last
  ELSE LastImportLine(lines, i + 1, last)

\* lines 248-265
HeaderEndIndex(lines, ext) ==
  IF ext \in {".js", ".jsx", ".ts", ".tsx"}
  THEN Min(LastImportLine(lines, 0, 0) + 3, 20)
  ELSE 10

\* lines 351-362: the indices (from 1) of the definitions after the header
DefinitionLines(lines, headerEndIndex) ==
  SeqFilter(LAMBDA i : i > headerEndIndex /\ IsDefinitionLine(lines[i]),
            [i \in 1..Len(lines) |-> i])

\* lines 397-404: "// Sample definition: x", up to 5 lines, an empty line
SampleOf(lines, lineIdx) ==
  <<Line("marker", 22 + 1)>>
  \o SubSeq(lines, lineIdx, Min(Len(lines), lineIdx + 4))
  \o <<Line("blank", 0)>>

\* lines 371-406: the index of the definitions and the samples
DefinitionsIndex(lines, defs) ==
  LET n == Len(defs)
      displayCount == Min(n, 20)
      names == displayCount + 2 * (displayCount - 1)
      more == IF n > displayCount THEN 10 + Digits(n - displayCount) + 5 ELSE 0
      samples == IF n > 3
                 THEN SampleOf(lines, defs[1])
                      \o SampleOf(lines, defs[(n \div 2) + 1])
                      \o SampleOf(lines, defs[n])
                 ELSE <<>>
  IN <<Line("marker", 23 + Digits(n) + 13), Line("marker", 5 + names + more),
       Line("blank", 0)>> \o samples

\* lines 237-417
createCodeSummary(content, ext) ==
  IF ContentLength(content) = 0 THEN <<Line("marker", 13)>>
  ELSE IF Len(content) <= 20 THEN content
  ELSE LET headerEndIndex == HeaderEndIndex(content, ext)
           headerLines == Slice0(content, headerEndIndex)
           defs == DefinitionLines(content, headerEndIndex)
           footerLines == SliceLast(content, 5)
           notShown == Len(content) - headerEndIndex - Len(footerLines)
       IN headerLines \o <<Line("blank", 0)>>
          \o (IF defs # <<>> THEN DefinitionsIndex(content, defs)
              ELSE <<Line("marker", 7 + Digits(notShown) + 20),
                     Line("blank", 0)>>)
          \o footerLines

\* the number of empty lines the content starts with
RECURSIVE BlankRun(_)
BlankRun(lines) ==
  IF lines = <<>> \/ Head(lines).len # 0 THEN 0
  ELSE 1 + BlankRun(Tail(lines))

\* lines 538-539: four or more line breaks with nothing between them become
\* three; a run of k empty lines has k + 1 line breaks inside the content
\* and one fewer at either end of it
RECURSIVE CollapseBlank(_, _)
CollapseBlank(lines, atStart) ==
  IF lines = <<>> THEN <<>>
  ELSE IF Head(lines).len # 0
  THEN <<Head(lines)>> \o CollapseBlank(Tail(lines), 0)
  ELSE LET k == BlankRun(lines)
           rest == SubSeq(lines, k + 1, Len(lines))
           atEnd == IF rest = <<>> THEN 1 ELSE 0
           kept == IF k + 1 - atStart - atEnd >= 4
                   THEN 2 + atStart + atEnd ELSE k
       IN SubSeq(lines, 1, kept) \o CollapseBlank(rest, 0)

\* the languages whose comments stripComments knows
CommentFamilies ==
  {".js", ".jsx", ".ts", ".tsx", ".c", ".cpp", ".h", ".java", ".cs", ".go",
   ".php", ".swift", ".py", ".rb", ".html", ".xml", ".svg"}

\* the languages whose single-line comments start with "//"
SlashFamilies ==
  {".js", ".jsx", ".ts", ".tsx", ".c", ".cpp", ".h", ".java", ".cs", ".go",
   ".php", ".swift"}

\* lines 425-542: a "comment" line is a comment of the file's language
\* without a TODO/FIXME/HACK/NOTE marker; it is emptied, its line break stays.
\* Line 472 (/\/\/.*$/gm) also cuts a "slashsecret" line at its "//": what
\* is left ends with the first two characters of the credential.
\* A "dollardoc" line is a one-line triple-quoted docstring that holds
\* "Returns:" and the two characters "$$": in a .py file lines 498-513 take
\* it out, and lines 520-525 put it back as the replacement string of
\* String.prototype.replace, in which "$$" stands for one "$"
stripComments(content, ext) ==
  IF ContentLength(content) = 0 THEN content
  ELSE LET Strip(line) ==
             IF line.kind = "comment" /\ ext \in CommentFamilies
             THEN Line("blank", 0)
             ELSE IF line.kind = "slashsecret" /\ ext \in SlashFamilies
             THEN Line("leak", line.len - 19)
             ELSE IF line.kind = "dollardoc" /\ ext = ".py"
             THEN Line("docstring", line.len - 1)
             ELSE line
       IN CollapseBlank(SeqMap(Strip, content), 1)

\* lines 549-591
shouldSkipFile(file) ==
  \/ file.ext \in {".png", ".jpg", ".jpeg", ".gif", ".bmp", ".ico", ".webp",
                   ".mp3", ".wav", ".ogg", ".mp4", ".avi", ".mov", ".flv",
                   ".pdf", ".doc", ".docx", ".xls", ".xlsx", ".zip", ".tar",
                   ".gz", ".exe", ".dll", ".so", ".pyc", ".class", ".o",
                   ".obj", ".map", ".lock"}
  \/ isLikelyBinaryFile(file)

\* lines 613-614
MaxFileSize(o) ==
  IF o.maxFileSizeBytes > 0 THEN o.maxFileSizeBytes
  ELSE ParseInt(IF Truthy(o.maxFileSize) THEN o.maxFileSize ELSE "500") * 1024

\* lines 600-627
formatFileContent(content, file, o) ==
  IF shouldSkipFile(file) THEN <<Line("marker", 44)>>
  ELSE IF ContentLength(content) > MaxFileSize(o)
  THEN createCodeSummary(content, file.ext)
  ELSE IF o.stripComments \/ o.optimizeTokens
  THEN stripComments(content, file.ext)
  ELSE content

\* path.dirname of the directories of the model, in the order of
\* Array.prototype.sort: "." sorts before every letter
DirRank(dir) ==
  CASE dir = "" -> 0
    [] dir = "config/" -> 1
    [] dir = "scripts/" -> 2
    [] dir = "src/" -> 3
    [] OTHER -> 4

\* file-utils.ts lines 1078-1104 and formatter.ts lines 732-773: the files
\* grouped by directory, the directories sorted, the order within a
\* directory kept
categorizeFilesByDirectory(fs, cs, ss) ==
  StableSort([i \in 1..MinLength(fs, cs, ss) |->
                [file |-> fs[i], content |-> cs[i], stat |-> ss[i]]],
             LAMBDA a, b : DirRank(a.file.dir) - DirRank(b.file.dir))

\* lines 637-782: the totals of the header and one section per file
formatOutput(fs, cs, o, ss) ==
  LET byDir == categorizeFilesByDirectory(fs, cs, ss)
      n == Len(byDir)
  IN [files |-> n,
      totalSize |-> SumSeq([i \in 1..n |-> byDir[i].stat.size]),
      totalTokens |-> CeilDiv(SumSeq([i \in 1..n |-> byDir[i].stat.size]), 4),
      sections |->
        Eager([i \in 1..n |->
                 [file |-> byDir[i].file, stat |-> byDir[i].stat,
                  content |-> IF o.listOnly THEN <<>>
                              ELSE formatFileContent(byDir[i].content,
                                                     byDir[i].file, o)]])]

\* an output that has not been produced
NoOutput == [files |-> 0, totalSize |-> 0, totalTokens |-> 0, sections |-> <<>>]

\* the contents handed to formatOutput with the redaction pass left out
ContentsToFormatUnredacted(cs, o) == cs

\* index.ts lines 1163-1206: the contents handed to formatOutput
ContentsToFormat(cs, o) ==
  IF o.redactCredentials THEN SeqMap(redactCredentials, cs) ELSE cs

\* index.ts lines 1136-1232: a dry run stops; otherwise the contents are
\* redacted when asked, formatted and delivered
Assemble ==
  /\ pc = "scored"
  /\ IF options.dryRun
     THEN /\ pc' = "dryrun"
          /\ UNCHANGED output
     ELSE /\ pc' = "assembled"
          /\ output' = formatOutput(
                         processedFiles,
                         ContentsToFormat(processedContents, options),
                         options, processedStats)
  /\ UNCHANGED <<opts, options, disk, now, files, readableFiles, fileStats,
                 skippedCount, sortedIndices, pos, totalSize, skippedFiles,
                 fileContents, finalFiles, finalContents, finalStats,
                 processedFiles, processedContents, processedStats,
                 scoredFiles, totalChars, scoreLog, reads, readIdx,
                 bytesRead, scored, profile>>

(***************************************************************************)
(* Spec: one run of the tool on a project tree                             *)
(***************************************************************************)
MaxDiskFiles == 4

\* the clock at the start of a run and the two modification times of the
\* trees, in hours: an old file is 83 days old, a fresh one ten hours
Hours == [RunClock |-> 2000, OldMtime |-> 0, FreshMtime |-> 1990]

RunClock == Hours.RunClock

OldMtime == Hours.OldMtime

FreshMtime == Hours.FreshMtime

\* the files a tree is drawn from, in the order glob returns them
Catalog ==
  <<DiskFile(Path("", "README.md", ".md"),
             <<Line("nonascii", 250)>>, TRUE, OldMtime),
    DiskFile(Path("config/", "app.json", ".json"),
             <<Line("text", 120)>>, TRUE, OldMtime),
    DiskFile(Path("", "main.tf", ".tf"),
             <<Line("text", 300)>>, TRUE, OldMtime),
    DiskFile(Path("", "package.json", ".json"),
             <<Line("text", 600)>>, TRUE, OldMtime),
    DiskFile(Path("scripts/", "run.lua", ".lua"),
             <<Line("text", 40), Line("text", 40)>>, TRUE, OldMtime),
    DiskFile(Path("src/", "a.ts", ".ts"),
             <<Line("import", 30), Line("text", 2469)>>, TRUE, OldMtime),
    DiskFile(Path("src/", "b.ts", ".ts"),
             <<Line("import", 30), Line("text", 2069)>>, TRUE, OldMtime),
    DiskFile(Path("src/", "index.ts", ".ts"),
             <<Line("import", 20), Line("def", 30), Line("export", 548)>>,
             TRUE, FreshMtime),
    DiskFile(Path("src/", "locked.ts", ".ts"),
             <<Line("text", 100)>>, FALSE, OldMtime)>>

\* the files of the catalog with these indices, in glob order
Tree(idx) == SeqFilter(LAMBDA f : \E i \in idx : Catalog[i] = f, Catalog)

Init ==
  /\ pc = "start"
  /\ \E m \in {"auto", "code", "infra", "doc"}, l \in {"1", "50"},
        r \in {"undef", "7"}, dr \in BOOLEAN :
       opts = [DefaultOpts EXCEPT !.mode = m, !.limit = l, !.recent = r,
                                  !.dryRun = dr]
  /\ options = DefaultOpts
  /\ \E idx \in SUBSET (1..Len(Catalog)) :
       /\ Cardinality(idx) <= MaxDiskFiles
       /\ disk = Tree(idx)
  /\ now = RunClock
  /\ files = <<>>
  /\ readableFiles = <<>>
  /\ fileStats = <<>>
  /\ skippedCount = 0
  /\ sortedIndices = <<>>
  /\ pos = 0
  /\ totalSize = 0
  /\ skippedFiles = 0
  /\ fileContents = <<>>
  /\ finalFiles = <<>>
  /\ finalContents = <<>>
  /\ finalStats = <<>>
  /\ processedFiles = <<>>
  /\ processedContents = <<>>
  /\ processedStats = <<>>
  /\ scoredFiles = <<>>
  /\ totalChars = 0
  /\ scoreLog = <<>>
  /\ output = NoOutput
  /\ reads = <<>>
  /\ readIdx = <<>>
  /\ bytesRead = 0
  /\ scored = FALSE
  /\ profile = <<>>

Next ==
  \/ Configure
  \/ FindFiles
  \/ Pass1
  \/ Pass2Step
  \/ Finalize
  \/ Prioritize
  \/ SkipPrioritize
  \/ Assemble

Spec == Init /\ [][Next]_vars

(***************************************************************************)
(* SpecFit: prioritizeFiles on lists longer than the top K.  The list is   *)
(* built file by file in the order pass 1 hands over (ascending size),     *)
(* then scored and fitted.                                                 *)
(***************************************************************************)
MaxFitFiles == 12

FitSizes == {90, 400, 2000, 60000}

FitTokens == {"0", "1000", "6000", "100000"}

FitBases ==
  <<"f01.ts", "f02.ts", "f03.ts", "f04.ts", "f05.ts", "f06.ts", "f07.ts",
    "f08.ts", "f09.ts", "f10.ts", "f11.ts", "f12.ts", "f13.ts", "f14.ts",
    "f15.ts", "f16.ts">>

FitOptions ==
  {[processCommandLineOptions([DefaultOpts EXCEPT !.tokens = tk, !.recent = "7"])
      EXCEPT !.smart = TRUE, !.summarizeLargeFiles = su,
             !.truncateLargeFiles = tr] :
     tk \in FitTokens, su \in BOOLEAN, tr \in BOOLEAN}


InitFit ==
  /\ pc = "read"
  /\ opts = DefaultOpts
  /\ options \in FitOptions
  /\ disk = <<>>
  /\ now = 0
  /\ files = <<>>
  /\ readableFiles = <<>>
  /\ fileStats = <<>>
  /\ skippedCount = 0
  /\ sortedIndices = <<>>
  /\ pos = 0
  /\ totalSize = 0
  /\ skippedFiles = 0
  /\ fileContents = <<>>
  /\ finalFiles = <<>>
  /\ finalContents = <<>>
  /\ finalStats = <<>>
  /\ processedFiles = <<>>
  /\ processedContents = <<>>
  /\ processedStats = <<>>
  /\ scoredFiles = <<>>
  /\ totalChars = 0
  /\ scoreLog = <<>>
  /\ output = NoOutput
  /\ reads = {}
  /\ readIdx = <<>>
  /\ bytesRead = 0
  /\ scored = FALSE
  /\ profile = <<>>

FitAddFile ==
  /\ pc = "read"
  /\ Len(finalFiles) < MaxFitFiles
  /\ \E size \in FitSizes :
       /\ finalStats # <<>> => size >= finalStats[Len(finalStats)].size
       /\ LET file == Path("src/", FitBases[Len(finalFiles) + 1], ".ts") IN
          /\ finalFiles' = Append(finalFiles, file)
          /\ finalContents' = Append(finalContents, <<Line("text", size)>>)
          /\ finalStats' = Append(finalStats,
                                  [path |-> file, size |-> size,
                                   tokens |-> CeilDiv(size, 4)])
  /\ UNCHANGED <<pc, opts, options, disk, now, files, readableFiles,
                 fileStats, skippedCount, sortedIndices, pos, totalSize,
                 skippedFiles, fileContents, processedFiles,
                 processedContents, processedStats, scoredFiles, totalChars,
                 scoreLog, output, reads, readIdx, bytesRead, scored,
                 profile>>

NextFit == FitAddFile \/ Prioritize

SpecFit == InitFit /\ [][NextFit]_vars

(***************************************************************************)
(* Properties of the Fitter                                                *)
(***************************************************************************)
\* the sorted list the Fitter walked
FitSorted == scoredFiles

\* the admitted files ranked beyond the top K
FitBeyond == SubSeq(processedStats, Min(TopK, Len(processedStats)) + 1,
                    Len(processedStats))

FitBeyondBytes == SumSeq([i \in 1..Len(FitBeyond) |-> FitBeyond[i].size])

FitBeyondFootprint ==
  SumSeq([i \in 1..Len(FitBeyond) |-> Min(FitBeyond[i].size, SummaryEstimate)])

FitTopBytes ==
  SumSeq([i \in 1..Min(TopK, Len(FitSorted)) |-> FitSorted[i].stats.size])

FitDone == pc = "scored" /\ scored /\ BudgetInEffect(options)

\* C1 as stated: with a token budget in effect the byte sizes of the
\* admitted files ranked beyond the top K sum to at most tokenLimitChars,
\* whether or not summarizeLargeFiles/truncateLargeFiles is enabled.
C1_BeyondTopKBytesWithinCeiling ==
  FitDone => FitBeyondBytes <= options.tokenLimitChars

\* C1 amended: the byte sizes of the admitted files beyond the top K stay
\* within tokenLimitChars when neither summarizeLargeFiles nor
\* truncateLargeFiles is enabled; with either enabled the bound holds for the
\* reduced footprints min(size, 1500) of those files.
C1_BeyondTopKWithinCeilingAmended ==
  FitDone =>
    /\ FitBeyondFootprint <= options.tokenLimitChars
    /\ ~(options.summarizeLargeFiles \/ options.truncateLargeFiles)
         => FitBeyondBytes <= options.tokenLimitChars

C1_Witness ==
  /\ FitDone
  /\ Len(FitBeyond) > 0
  /\ Len(processedFiles) < Len(finalFiles)
  /\ ~options.summarizeLargeFiles /\ ~options.truncateLargeFiles

\* C2: with a token budget in effect the first min(10, n) files of the
\* descending sort are all in the returned selection, whatever their sizes.
C2_TopKAlwaysPresent ==
  FitDone =>
    \A i \in 1..Min(TopK, Len(FitSorted)) :
      /\ i <= Len(processedFiles)
      /\ processedFiles[i] = FitSorted[i].file
      /\ processedContents[i] = FitSorted[i].content
      /\ processedStats[i] = FitSorted[i].stats

C2_Witness ==
  /\ FitDone
  /\ Len(finalFiles) > TopK
  /\ FitTopBytes > options.tokenLimitChars
  /\ Len(processedFiles) = TopK

\* C6: the sizes of the top K are charged to the budget walk: the charged
\* total never drops below the top-K bytes plus the reduced footprints of
\* the files admitted beyond them, it stays within the ceiling whenever a
\* file beyond the top K was admitted, and when the top-K bytes alone
\* exceed the ceiling the selection is the top K only.
C6_TopKChargedToWalk ==
  FitDone =>
    /\ totalChars >= FitTopBytes + FitBeyondFootprint
    /\ Len(FitBeyond) > 0 => totalChars <= options.tokenLimitChars
    /\ FitTopBytes > options.tokenLimitChars => Len(FitBeyond) = 0

C6_Witness ==
  /\ FitDone
  /\ Len(finalFiles) > TopK
  /\ FitTopBytes > options.tokenLimitChars
  /\ Len(FitBeyond) = 0
  /\ \E i \in 1..Len(finalStats) :
       finalStats[i].size + 0 <= options.tokenLimitChars

(***************************************************************************)
(* SpecScore: prioritizeFiles called again on the same file with the same  *)
(* options, while the clock advances and the file on disk is touched.      *)
(***************************************************************************)
MaxClockTicks == 2

\* the files of the catalog pass 2 can read
ReadableCatalog == {k \in 1..Len(Catalog) : Catalog[k].readable}

InitScore ==
  /\ pc = "scoring"
  /\ \E m \in {"auto", "code", "infra", "doc"}, r \in {"undef", "7"} :
       /\ opts = [DefaultOpts EXCEPT !.mode = m, !.recent = r]
       /\ options = processCommandLineOptions(
                      [DefaultOpts EXCEPT !.mode = m, !.recent = r])
  /\ \E k \in ReadableCatalog :
       /\ disk = <<Catalog[k]>>
       /\ finalFiles = <<Catalog[k].path>>
       /\ finalContents = <<Catalog[k].content>>
       /\ finalStats = <<[path |-> Catalog[k].path, size |-> Catalog[k].size,
                          tokens |-> CeilDiv(ContentLength(Catalog[k].content), 4)]>>
  /\ now = RunClock
  /\ files = <<>>
  /\ readableFiles = <<>>
  /\ fileStats = <<>>
  /\ skippedCount = 0
  /\ sortedIndices = <<>>
  /\ pos = 0
  /\ totalSize = 0
  /\ skippedFiles = 0
  /\ fileContents = <<>>
  /\ processedFiles = <<>>
  /\ processedContents = <<>>
  /\ processedStats = <<>>
  /\ scoredFiles = <<>>
  /\ totalChars = 0
  /\ scoreLog = <<>>
  /\ output = NoOutput
  /\ reads = <<>>
  /\ readIdx = <<>>
  /\ bytesRead = 0
  /\ scored = FALSE
  /\ profile = <<>>

\* twelve hours pass
ClockTick ==
  /\ pc = "scoring"
  /\ now < RunClock + 12 * MaxClockTicks
  /\ now' = now + 12
  /\ UNCHANGED <<pc, opts, options, disk, files, readableFiles, fileStats,
                 skippedCount, sortedIndices, pos, totalSize, skippedFiles,
                 fileContents, finalFiles, finalContents, finalStats,
                 processedFiles, processedContents, processedStats,
                 scoredFiles, totalChars, scoreLog, output, reads, readIdx,
                 bytesRead, scored, profile>>

\* the file on disk is written again: its modification time is the clock's
TouchFile ==
  /\ pc = "scoring"
  /\ disk[1].mtime # now
  /\ disk' = [disk EXCEPT ![1].mtime = now]
  /\ UNCHANGED <<pc, opts, options, now, files, readableFiles, fileStats,
                 skippedCount, sortedIndices, pos, totalSize, skippedFiles,
                 fileContents, finalFiles, finalContents, finalStats,
                 processedFiles, processedContents, processedStats,
                 scoredFiles, totalChars, scoreLog, output, reads, readIdx,
                 bytesRead, scored, profile>>

\* prioritizeFiles on the same lists and options; the log keeps two calls
ScoreCall ==
  /\ pc = "scoring"
  /\ Len(scoreLog) < 2
  /\ LET result == prioritizeFiles(finalFiles, finalContents, finalStats,
                                   options, now, disk)
     IN /\ processedFiles' = result.files
        /\ processedContents' = result.fileContents
        /\ processedStats' = result.fileStats
        /\ scoredFiles' = result.scoredFiles
        /\ totalChars' = result.totalChars
        /\ scoreLog' = Append(scoreLog,
                              [clock |-> now, mtime |-> disk[1].mtime,
                               score |-> result.scoredFiles[1].score])
  /\ scored' = TRUE
  /\ UNCHANGED <<pc, opts, options, disk, now, files, readableFiles,
                 fileStats, skippedCount, sortedIndices, pos, totalSize,
                 skippedFiles, fileContents, finalFiles, finalContents,
                 finalStats, output, reads, readIdx, bytesRead, profile>>

NextScore == ClockTick \/ TouchFile \/ ScoreCall

SpecScore == InitScore /\ [][NextScore]_vars

(***************************************************************************)
(* SpecTransform: formatOutput on one file whose content is built block    *)
(* by block, with a per-file limit of 1 KB.                                *)
(***************************************************************************)
MaxBlocks == 3

\* count lines of one kind and one length
Block(kind, count, len) == [i \in 1..count |-> Line(kind, len)]

InitTransform ==
  /\ pc = "scored"
  /\ \E m \in {"code", "doc"}, tr \in BOOLEAN :
       /\ opts = [DefaultOpts EXCEPT !.mode = m, !.maxFileSize = "1",
                                     !.truncateLargeFiles = tr]
       /\ options = processCommandLineOptions(
                      [DefaultOpts EXCEPT !.mode = m, !.maxFileSize = "1",
                                          !.truncateLargeFiles = tr])
  /\ processedFiles = <<Path("src/", "big.ts", ".ts")>>
  /\ processedContents = << <<>> >>
  /\ processedStats = <<[path |-> Path("src/", "big.ts", ".ts"), size |-> 0,
                         tokens |-> 0]>>
  /\ disk = <<>>
  /\ now = RunClock
  /\ files = <<>>
  /\ readableFiles = <<>>
  /\ fileStats = <<>>
  /\ skippedCount = 0
  /\ sortedIndices = <<>>
  /\ pos = 0
  /\ totalSize = 0
  /\ skippedFiles = 0
  /\ fileContents = <<>>
  /\ finalFiles = <<>>
  /\ finalContents = <<>>
  /\ finalStats = <<>>
  /\ scoredFiles = <<>>
  /\ totalChars = 0
  /\ scoreLog = <<>>
  /\ output = NoOutput
  /\ reads = <<>>
  /\ readIdx = <<>>
  /\ bytesRead = 0
  /\ scored = FALSE
  /\ profile = <<>>

\* the content grows by a block of lines; pos counts the blocks
AddBlock ==
  /\ pc = "scored"
  /\ pos < MaxBlocks
  /\ \E kind \in {"text", "import", "def"}, count \in {1, 11},
        len \in {30, 3000} :
       LET content == processedContents[1] \o Block(kind, count, len) IN
       /\ processedContents' = <<content>>
       /\ processedStats' = <<[path |-> processedFiles[1],
                               size |-> ByteLength(content),
                               tokens |-> CeilDiv(ContentLength(content), 4)]>>
  /\ pos' = pos + 1
  /\ UNCHANGED <<pc, opts, options, disk, now, files, readableFiles,
                 fileStats, skippedCount, sortedIndices, totalSize,
                 skippedFiles, fileContents, finalFiles, finalContents,
                 finalStats, processedFiles, scoredFiles, totalChars,
                 scoreLog, output, reads, readIdx, bytesRead, scored,
                 profile>>

NextTransform == AddBlock \/ Assemble

SpecTransform == InitTransform /\ [][NextTransform]_vars

(***************************************************************************)
(* Properties of one run (Spec)                                            *)
(***************************************************************************)
IndexOf(s, x) == CHOOSE i \in 1..Len(s) : s[i] = x

ReaderDone == pc \in {"read", "scored", "assembled", "dryrun"}

\* C3: in pass 2 the bytes of file content read so far never exceed
\* limitBytes
C3_BytesReadWithinLimit ==
  pc \in {"pass2", "read", "scored", "assembled", "dryrun"}
    => bytesRead <= options.limitBytes

\* C4: every entry of the Reader's output is a file pass 2 read, paired with
\* its own content and its own stat, and every file pass 2 skipped is
\* counted once and absent from the output
C4_ReaderOutputPaired ==
  ReaderDone =>
    /\ Len(finalFiles) = Len(readIdx)
    /\ Len(finalContents) = Len(readIdx)
    /\ Len(finalStats) = Len(readIdx)
    /\ \A i \in 1..Len(finalFiles) :
         /\ finalFiles[i] = readableFiles[readIdx[i]]
         /\ finalContents[i] = Utf8Decode(OnDisk(disk, finalFiles[i]).content)
         /\ finalStats[i].path = finalFiles[i]
    /\ skippedFiles = Len(sortedIndices) - Len(readIdx)

C10_AssembledAfterScoring ==
  pc = "assembled" => scored

(***************************************************************************)
(* Properties of repeated scoring (SpecScore)                              *)
(***************************************************************************)
\* C8: two calls of prioritizeFiles with the same file and the same
\* options give the file the same score
C8_SameScoreOnRepeatedCalls ==
  \A i, j \in 1..Len(scoreLog) : scoreLog[i].score = scoreLog[j].score

\* C8, as the code has it: the two scores are equal when --recent is given,
\* or when the clock and the modification time found on disk are the same
\* at both calls
C8_SameScoreUnderSameClockAndDisk ==
  \A i, j \in 1..Len(scoreLog) :
    (\/ Truthy(options.recent)
     \/ /\ scoreLog[i].clock = scoreLog[j].clock
        /\ scoreLog[i].mtime = scoreLog[j].mtime)
      => scoreLog[i].score = scoreLog[j].score

\* two calls with --recent given, twelve or more hours apart, on a file
\* that was modified within the last fourteen days
C8_Witness ==
  /\ Len(scoreLog) = 2
  /\ Truthy(options.recent)
  /\ scoreLog[1].clock < scoreLog[2].clock
  /\ scoreLog[2].clock - scoreLog[2].mtime < 14 * 24

(***************************************************************************)
(* Properties of the formatter (SpecTransform)                             *)
(***************************************************************************)
\* C9: a content longer than the per-file budget comes out of
\* formatFileContent no longer than the budget plus a marker of at most a
\* hundred characters
C9_TransformWithinBudget ==
  (pc = "assembled"
   /\ ContentLength(processedContents[1]) > MaxFileSize(options))
    => ContentLength(output.sections[1].content) <= MaxFileSize(options) + 100


(***************************************************************************)
(* SpecFind: configuration and discovery on trees that hold ignored        *)
(* directories, files matched by the root .gitignore, excluded names and   *)
(* old files, with and without --recent and --max-files                    *)
(***************************************************************************)
MaxFindFiles == 4

\* the files a discovery tree is drawn from, in the order glob returns them
FindCatalog ==
  <<DiskFile(Path(".git/", "HEAD", ""), <<Line("text", 21)>>, TRUE, OldMtime),
    DiskFile(Path("", "Dockerfile.dev", ".dev"),
             <<Line("text", 60)>>, TRUE, OldMtime),
    DiskFile(Path("", "README.md", ".md"), <<Line("text", 200)>>, TRUE, OldMtime),
    DiskFile(Path("", "angular.json", ".json"),
             <<Line("text", 90)>>, TRUE, OldMtime),
    DiskFile(Path("node_modules/", "x.js", ".js"),
             <<Line("text", 10240)>>, TRUE, FreshMtime),
    DiskFile(Path("", "package-lock.json", ".json"),
             <<Line("text", 900)>>, TRUE, FreshMtime),
    DiskFile(Path("scripts/", "run.lua", ".lua"),
             <<Line("text", 40), Line("text", 40)>>, TRUE, OldMtime),
    DiskFile(Path("src/", "a.ts", ".ts"),
             <<Line("import", 30), Line("text", 400)>>, TRUE, OldMtime),
    DiskFile(Path("src/", "index.ts", ".ts"),
             <<Line("import", 20), Line("export", 479)>>, TRUE, FreshMtime),
    GitIgnoredFile(DiskFile(Path("src/", "secret.ts", ".ts"),
                            <<Line("secret", 40)>>, TRUE, FreshMtime)),
    GitIgnoredFile(DiskFile(Path("tools/", "gen.ts", ".ts"),
                            <<Line("text", 80)>>, TRUE, FreshMtime)),
    DiskFile(Path("tools/", "new.ts", ".ts"),
             <<Line("text", 70)>>, TRUE, FreshMtime),
    DiskFile(Path("tools/", "old.ts", ".ts"),
             <<Line("text", 70)>>, TRUE, OldMtime)>>

FindTree(idx) ==
  SeqFilter(LAMBDA f : \E i \in idx : FindCatalog[i] = f, FindCatalog)

InitFind ==
  /\ pc = "start"
  /\ \E sec \in {"auto", "none"}, r \in {"undef", "7"}, mf \in {0, 1, 2} :
       opts = [DefaultOpts EXCEPT !.security = sec, !.recent = r,
                                  !.maxFiles = mf]
  /\ options = DefaultOpts
  /\ \E idx \in SUBSET (1..Len(FindCatalog)) :
       /\ Cardinality(idx) <= MaxFindFiles
       /\ disk = FindTree(idx)
  /\ now = RunClock
  /\ files = <<>>
  /\ readableFiles = <<>>
  /\ fileStats = <<>>
  /\ skippedCount = 0
  /\ sortedIndices = <<>>
  /\ pos = 0
  /\ totalSize = 0
  /\ skippedFiles = 0
  /\ fileContents = <<>>
  /\ finalFiles = <<>>
  /\ finalContents = <<>>
  /\ finalStats = <<>>
  /\ processedFiles = <<>>
  /\ processedContents = <<>>
  /\ processedStats = <<>>
  /\ scoredFiles = <<>>
  /\ totalChars = 0
  /\ scoreLog = <<>>
  /\ output = NoOutput
  /\ reads = <<>>
  /\ readIdx = <<>>
  /\ bytesRead = 0
  /\ scored = FALSE
  /\ profile = <<>>

NextFind == Configure \/ FindFiles

SpecFind == InitFind /\ [][NextFind]_vars

\* findFiles has returned
Discovered == pc \in {"found", "nofiles"}

\* the record of the tree for a path
DiskOf(file) == disk[CHOOSE i \in 1..Len(disk) : disk[i].path = file]

\* C11: when respectGitignore is set, no path findFiles returns is reported
\* ignored by the .gitignore of the root, whichever rule admitted it
C11_NeverReturnsGitIgnored ==
  (Discovered /\ options.respectGitignore)
    => \A i \in 1..Len(files) : files[i] \notin GitIgnored(disk)


\* C12: when recent is N > 0 days, every path findFiles returns was
\* modified within N days of now, whichever rule admitted it
C12_ReturnedFilesAreRecent ==
  (Discovered /\ RecentFilter(options, now) # <<>>)
    => \A i \in 1..Len(files) :
         DiskOf(files[i]).mtime >= RecentFilter(options, now)[1]


\* the candidates of the tree: the files the filter kept, before the cap
Candidates ==
  FilterBatches(SeqFilter(LAMBDA f : ~IgnoredByGlob(f.path), disk), 1,
                [kept |-> <<>>, read |-> <<>>], options, now,
                GitIgnored(disk)).kept

\* the configured maximum of the run
ConfiguredMax ==
  IF options.maxFiles > 0 THEN options.maxFiles ELSE MAX_TOTAL_FILES

\* C13: when the candidates outnumber the configured maximum, findFiles
\* returns all the high-priority candidates, then the next other candidates
\* in discovery order as far as room is left, and never an empty list
C13_CapKeepsHighPriorityThenFills ==
  (Discovered /\ Len(Candidates) > ConfiguredMax)
    => LET high == SeqFilter(IsHighPriorityMatch, Candidates)
           rest == SeqFilter(LAMBDA x : ~IsHighPriorityMatch(x), Candidates)
           room == Max(ConfiguredMax - Len(high), 0)
       IN /\ files = high \o SubSeq(rest, 1, Min(room, Len(rest)))
          /\ files # <<>>


\* the root of the discovery scenario: src/index.ts (500 B),
\* node_modules/x.js (10 KB), README.md (200 B) and .git/HEAD
ScenarioRoot ==
  {disk[i].path : i \in 1..Len(disk)} =
    {Path("src/", "index.ts", ".ts"), Path("node_modules/", "x.js", ".js"),
     Path("", "README.md", ".md"), Path(".git/", "HEAD", "")}

\* neither a file cap nor a recent filter is configured
PlainDiscovery == options.maxFiles = 0 /\ RecentFilter(options, now) = <<>>

\* the file is outside the ignored directories, and its basename or its
\* extension is on the include lists
OnIncludeLists(f) ==
  /\ ~IgnoredByGlob(f.path)
  /\ \/ f.path.base \in IncludeFilesSet(options)
     \/ f.path.ext \in ExtensionsSet(options)

\* C14 as stated: no returned path lies under node_modules/ or .git/, every
\* other file whose basename or extension is on the include lists is
\* returned, and the scenario root gives exactly {src/index.ts, README.md}
C14_EveryIncludedFileReturned ==
  (Discovered /\ PlainDiscovery)
    => /\ \A i \in 1..Len(files) : files[i].dir \notin {"node_modules/", ".git/"}
       /\ \A j \in 1..Len(disk) :
            (OnIncludeLists(disk[j]) /\ ~disk[j].ignored)
              => disk[j].path \in Range(files)
       /\ ScenarioRoot
            => Range(files) = {Path("src/", "index.ts", ".ts"),
                               Path("", "README.md", ".md")}

\* C14, amended: the same, for the files whose basename does not match the
\* exclude list
C14_EveryIncludedUnlessExcluded ==
  (Discovered /\ PlainDiscovery)
    => /\ \A i \in 1..Len(files) : files[i].dir \notin {"node_modules/", ".git/"}
       /\ \A j \in 1..Len(disk) :
            (/\ OnIncludeLists(disk[j])
             /\ ~disk[j].ignored
             /\ ~IsExcluded(disk[j].path, options))
              => disk[j].path \in Range(files)
       /\ ScenarioRoot
            => /\ Range(files) = {Path("src/", "index.ts", ".ts"),
                                  Path("", "README.md", ".md")}
               /\ Len(files) = 2

\* the scenario root has been searched and gave its two files
C14_Witness ==
  /\ Discovered
  /\ PlainDiscovery
  /\ ScenarioRoot
  /\ files = <<Path("", "README.md", ".md"), Path("src/", "index.ts", ".ts")>>


(***************************************************************************)
(* SpecRead: discovery and the two Reader passes on trees that hold a      *)
(* file with invalid UTF-8, an unreadable file and files that disappear    *)
(* while the run is going on                                               *)
(***************************************************************************)
MaxReadFiles == 4

\* the files a Reader tree is drawn from, in the order glob returns them
ReadCatalog ==
  <<DiskFile(Path("", "README.md", ".md"), <<Line("text", 200)>>, TRUE, OldMtime),
    DiskFile(Path("src/", "a.ts", ".ts"),
             <<Line("import", 30), Line("text", 400)>>, TRUE, OldMtime),
    DiskFile(Path("src/", "big.ts", ".ts"),
             <<Line("import", 30), Line("text", 2069)>>, TRUE, OldMtime),
    DiskFile(Path("src/", "index.ts", ".ts"),
             <<Line("import", 20), Line("export", 479)>>, TRUE, FreshMtime),
    DiskFile(Path("src/", "latin1.ts", ".ts"),
             <<Line("text", 50), Line("invalid", 10)>>, TRUE, OldMtime),
    DiskFile(Path("src/", "locked.ts", ".ts"),
             <<Line("text", 100)>>, FALSE, OldMtime)>>

ReadTree(idx) ==
  SeqFilter(LAMBDA f : \E i \in idx : ReadCatalog[i] = f, ReadCatalog)

InitRead ==
  /\ pc = "start"
  /\ \E l \in {"1", "50"}, mf \in {0, 2} :
       opts = [DefaultOpts EXCEPT !.limit = l, !.maxFiles = mf]
  /\ options = DefaultOpts
  /\ \E idx \in SUBSET (1..Len(ReadCatalog)) :
       /\ Cardinality(idx) <= MaxReadFiles
       /\ disk = ReadTree(idx)
  /\ now = RunClock
  /\ files = <<>>
  /\ readableFiles = <<>>
  /\ fileStats = <<>>
  /\ skippedCount = 0
  /\ sortedIndices = <<>>
  /\ pos = 0
  /\ totalSize = 0
  /\ skippedFiles = 0
  /\ fileContents = <<>>
  /\ finalFiles = <<>>
  /\ finalContents = <<>>
  /\ finalStats = <<>>
  /\ processedFiles = <<>>
  /\ processedContents = <<>>
  /\ processedStats = <<>>
  /\ scoredFiles = <<>>
  /\ totalChars = 0
  /\ scoreLog = <<>>
  /\ output = NoOutput
  /\ reads = <<>>
  /\ readIdx = <<>>
  /\ bytesRead = 0
  /\ scored = FALSE
  /\ profile = <<>>

\* a file of the tree is removed while the Reader runs
Vanish ==
  /\ pc \in {"found", "pass2"}
  /\ \E i \in 1..Len(disk) :
       disk' = SubSeq(disk, 1, i - 1) \o SubSeq(disk, i + 1, Len(disk))
  /\ UNCHANGED <<pc, opts, options, now, files, readableFiles, fileStats,
                 skippedCount, sortedIndices, pos, totalSize, skippedFiles,
                 fileContents, finalFiles, finalContents, finalStats,
                 processedFiles, processedContents, processedStats,
                 scoredFiles, totalChars, scoreLog, output, reads, readIdx,
                 bytesRead, scored, profile>>

NextRead ==
  \/ Configure
  \/ FindFiles
  \/ Vanish
  \/ Pass1
  \/ Pass2Step
  \/ Finalize

SpecRead == InitRead /\ [][NextRead]_vars

\* the steps of main() up to the end of the Reader, told by what they do to
\* the position in the code: the step of NextRead that leaves "start" is
\* Configure, the one that leaves "configured" is FindFiles, the one that
\* leaves "found" is Pass1, the one that advances pos is Pass2Step and the
\* one that leaves "pass2" is Finalize
ReaderProgress ==
  \/ pc = "start" /\ pc' = "configured" /\ pos' = pos
  \/ pc = "configured" /\ pc' \in {"found", "nofiles"} /\ pos' = pos
  \/ pc = "found" /\ pc' = "pass2" /\ pos' = pos
  \/ pc = "pass2" /\ pos < Len(sortedIndices) /\ pos' = pos + 1 /\ pc' = pc
  \/ pc = "pass2" /\ pos = Len(sortedIndices) /\ pc' = "read" /\ pos' = pos

\* main() is sequential code: a statement or a loop iteration that can run
\* does run; nothing makes a file disappear
SpecReadLive == SpecRead /\ WF_<<pc, pos>>(ReaderProgress)

\* pass 2 has gone through its whole list
Pass2Over == pc = "pass2" /\ pos = Len(sortedIndices)

\* pass 1 kept every file of its list that is on the disk with a size it
\* accepts, wherever in the list the files are whose stat threw
Pass1ConsideredAll ==
  \A i \in 1..Len(files) :
    (/\ ~(options.skipBinary /\ isLikelyBinaryFile(files[i]))
     /\ StatSync(disk, files[i]) # <<>>
     /\ Pass1Keeps(StatSync(disk, files[i])[1], options))
      => files[i] \in Range(readableFiles)

\* every file pass 2 has reached was admitted or counted as skipped, and
\* a skipped one is gone, unreadable or beyond what is left of the limit
Pass2AccountedFor ==
  /\ Len(fileContents) + skippedFiles = pos
  /\ Len(readIdx) = Len(fileContents)
  /\ \A k \in 1..pos :
       sortedIndices[k] \notin Range(readIdx)
         => \/ StatSync(disk, readableFiles[sortedIndices[k]]) = <<>>
            \/ ~StatSync(disk, readableFiles[sortedIndices[k]])[1].readable
            \/ Pass2Overflows(totalSize, fileStats[sortedIndices[k]], options)

\* C17: a stat or read failure on one file never aborts the batch.  The
\* file whose stat throws is dropped and the file whose read fails is
\* counted as skipped, the files after it are still considered, and both
\* passes come to their end with every file admitted, dropped or skipped
C17_FailuresNeverAbortTheBatch ==
  /\ [](pc = "pass2" => (Pass1ConsideredAll /\ Pass2AccountedFor))
  /\ (pc = "found" ~> Pass2Over)

\* pass 2 is over after a stat failure and a read failure, each followed
\* by a file that was kept or admitted
C17_Witness ==
  /\ Pass2Over
  /\ \E i, j \in 1..Len(files) :
       /\ i < j
       /\ files[i] \notin Range(readableFiles)
       /\ files[j] \in Range(readableFiles)
  /\ \E a, b \in 1..Len(sortedIndices) :
       /\ a < b
       /\ sortedIndices[a] \notin Range(readIdx)
       /\ sortedIndices[b] \in Range(readIdx)
  /\ skippedFiles > 0

\* C15: with forceUtf8 set, a file whose bytes are no valid UTF-8 is skipped
\* and counted: no content pass 2 admitted holds replacement characters
C15_InvalidUtf8SkippedWhenForced ==
  (pc = "pass2" /\ options.forceUtf8)
    => \A k \in 1..Len(fileContents) :
         CountKind(fileContents[k], {"replacement"}) = 0


(***************************************************************************)
(* SpecExit: how a run ends, on roots that can and cannot be listed        *)
(***************************************************************************)
MaxExitFiles == 3

InitExit ==
  /\ pc = "start"
  /\ \E dir \in {".", "locked/"}, dr \in BOOLEAN :
       opts = [DefaultOpts EXCEPT !.directory = dir, !.dryRun = dr]
  /\ options = DefaultOpts
  /\ \E idx \in SUBSET (1..Len(ReadCatalog)) :
       /\ Cardinality(idx) <= MaxExitFiles
       /\ disk = ReadTree(idx)
  /\ now = RunClock
  /\ files = <<>>
  /\ readableFiles = <<>>
  /\ fileStats = <<>>
  /\ skippedCount = 0
  /\ sortedIndices = <<>>
  /\ pos = 0
  /\ totalSize = 0
  /\ skippedFiles = 0
  /\ fileContents = <<>>
  /\ finalFiles = <<>>
  /\ finalContents = <<>>
  /\ finalStats = <<>>
  /\ processedFiles = <<>>
  /\ processedContents = <<>>
  /\ processedStats = <<>>
  /\ scoredFiles = <<>>
  /\ totalChars = 0
  /\ scoreLog = <<>>
  /\ output = NoOutput
  /\ reads = <<>>
  /\ readIdx = <<>>
  /\ bytesRead = 0
  /\ scored = FALSE
  /\ profile = <<>>

\* the run is over
Ended == pc \in {"nofiles", "dryrun", "assembled", "rejected"}

\* index.ts lines 1239-1243 and bin/codesnap.js: an exception that leaves
\* main() rejects its promise; the handler writes the error to standard
\* error and exits with status 1
Throw ==
  /\ ~Ended
  /\ pc' = "rejected"
  /\ UNCHANGED <<opts, options, disk, now, files, readableFiles, fileStats,
                 skippedCount, sortedIndices, pos, totalSize, skippedFiles,
                 fileContents, finalFiles, finalContents, finalStats,
                 processedFiles, processedContents, processedStats,
                 scoredFiles, totalChars, scoreLog, output, reads, readIdx,
                 bytesRead, scored, profile>>

\* the status the process ends with: main() returning ends it with 0
ExitStatus == IF pc = "rejected" THEN 1 ELSE 0

\* the run ended on standard error
OnStandardError == pc = "rejected"

NextExit ==
  \/ Configure
  \/ FindFiles
  \/ Pass1
  \/ Pass2Step
  \/ Finalize
  \/ Prioritize
  \/ Assemble
  \/ Throw

SpecExit == InitExit /\ [][NextExit]_vars

\* C16: a run that finds no file in a readable root ends with status 0,
\* and a run ends with a non-zero status and an error on standard error on
\* every other fatal condition, an unreadable root and a thrown exception
\* included
C16_ExitStatusTellsFatalFromEmpty ==
  Ended =>
    /\ (pc = "nofiles" /\ RootReadable(options)) => ExitStatus = 0
    /\ ~RootReadable(options) => (ExitStatus # 0 /\ OnStandardError)
    /\ pc = "rejected" => (ExitStatus # 0 /\ OnStandardError)


(***************************************************************************)
(* SpecRedact: redaction and formatting of two files whose contents hold   *)
(* comments and credentials                                                *)
(***************************************************************************)
MaxRedactLines == 3

InitRedact ==
  /\ pc = "scored"
  /\ \E m \in {"code", "doc"}, sec \in {"auto", "none"} :
       /\ opts = [DefaultOpts EXCEPT !.mode = m, !.security = sec]
       /\ options = processCommandLineOptions(
                      [DefaultOpts EXCEPT !.mode = m, !.security = sec])
  /\ processedFiles = <<Path("src/", "db.ts", ".ts"),
                        Path("config/", "keys.ts", ".ts")>>
  /\ processedContents = << <<Line("import", 30)>>, <<Line("text", 40)>> >>
  /\ processedStats = <<[path |-> Path("src/", "db.ts", ".ts"), size |-> 30,
                         tokens |-> 8],
                        [path |-> Path("config/", "keys.ts", ".ts"),
                         size |-> 40, tokens |-> 10]>>
  /\ disk = <<>>
  /\ now = RunClock
  /\ files = <<>>
  /\ readableFiles = <<>>
  /\ fileStats = <<>>
  /\ skippedCount = 0
  /\ sortedIndices = <<>>
  /\ pos = 0
  /\ totalSize = 0
  /\ skippedFiles = 0
  /\ fileContents = <<>>
  /\ finalFiles = <<>>
  /\ finalContents = <<>>
  /\ finalStats = <<>>
  /\ scoredFiles = <<>>
  /\ totalChars = 0
  /\ scoreLog = <<>>
  /\ output = NoOutput
  /\ reads = <<>>
  /\ readIdx = <<>>
  /\ bytesRead = 0
  /\ scored = FALSE
  /\ profile = <<>>

\* one of the two contents grows by a line; pos counts the lines added
AddLine ==
  /\ pc = "scored"
  /\ pos < MaxRedactLines
  /\ \E f \in 1..2, kind \in {"text", "comment", "secret", "slashsecret"} :
       LET content == Append(processedContents[f], Line(kind, 60)) IN
       /\ processedContents' = [processedContents EXCEPT ![f] = content]
       /\ processedStats' =
            [processedStats EXCEPT ![f].size = ByteLength(content),
                                   ![f].tokens = CeilDiv(ContentLength(content), 4)]
  /\ pos' = pos + 1
  /\ UNCHANGED <<pc, opts, options, disk, now, files, readableFiles,
                 fileStats, skippedCount, sortedIndices, totalSize,
                 skippedFiles, fileContents, finalFiles, finalContents,
                 finalStats, processedFiles, scoredFiles, totalChars,
                 scoreLog, output, reads, readIdx, bytesRead, scored,
                 profile>>

NextRedact == AddLine \/ Assemble

SpecRedact == InitRedact /\ [][NextRedact]_vars

\* the files and raw contents in the order of the sections of the document
RawByDir ==
  categorizeFilesByDirectory(processedFiles, processedContents, processedStats)

\* the sections hold the files of the selection, all of them, in the order
\* the formatter gives them with or without redaction
SameFilesSameOrder ==
  /\ Len(output.sections) = Len(processedFiles)
  /\ \A i \in 1..Len(output.sections) :
       output.sections[i].file = RawByDir[i].file

CommandLines ==
  {[DefaultOpts EXCEPT !.limit = l, !.tokens = t, !.mode = m,
                       !.security = sec, !.recent = r] :
     l \in {"undef", "200"}, t \in {"undef", "1000"}, m \in {"undef", "code"},
     sec \in {"undef", "none"}, r \in {"undef", "7"}}

\* the command lines of the run that saved the profile
SavingCommandLines ==
  {[DefaultOpts EXCEPT !.limit = l, !.tokens = t, !.mode = m,
                       !.security = sec, !.recent = r] :
     l \in {"undef", "500"}, t \in {"undef", "6000"}, m \in {"undef", "doc"},
     sec \in {"undef", "strict"}, r \in {"undef", "2"}}

InitLoad ==
  /\ pc = "start"
  /\ opts \in CommandLines
  /\ options = DefaultOpts
  /\ disk = <<ReadCatalog[1], ReadCatalog[4]>>
  /\ now = RunClock
  /\ files = <<>>
  /\ readableFiles = <<>>
  /\ fileStats = <<>>
  /\ skippedCount = 0
  /\ sortedIndices = <<>>
  /\ pos = 0
  /\ totalSize = 0
  /\ skippedFiles = 0
  /\ fileContents = <<>>
  /\ finalFiles = <<>>
  /\ finalContents = <<>>
  /\ finalStats = <<>>
  /\ processedFiles = <<>>
  /\ processedContents = <<>>
  /\ processedStats = <<>>
  /\ scoredFiles = <<>>
  /\ totalChars = 0
  /\ scoreLog = <<>>
  /\ output = NoOutput
  /\ reads = <<>>
  /\ readIdx = <<>>
  /\ bytesRead = 0
  /\ scored = FALSE
  /\ profile = <<>>

\* index.ts lines 840-842 and interactive.ts lines 158-185, in an earlier
\* run with --save: the options setupProgram returned are written to the
\* profile this run loads
SaveProfile ==
  /\ pc = "start"
  /\ profile = <<>>
  /\ \E cli \in SavingCommandLines :
       profile' = <<processCommandLineOptions(CommanderOpts(cli))>>
  /\ UNCHANGED <<pc, opts, options, disk, now, files, readableFiles,
                 fileStats, skippedCount, sortedIndices, pos, totalSize,
                 skippedFiles, fileContents, finalFiles, finalContents,
                 finalStats, processedFiles, processedContents,
                 processedStats, scoredFiles, totalChars, scoreLog, output,
                 reads, readIdx, bytesRead, scored>>

NextLoad == SaveProfile \/ Configure \/ FindFiles

SpecLoad == InitLoad /\ [][NextLoad]_vars

\* C19: when a profile is loaded, the effective value of an option is the
\* value of the command line if the command line gives the option, and the
\* value stored in the profile otherwise, for limit, tokens, mode and
\* security as for the options without a default
C19_ProfileValueUnlessExplicit ==
  (pc = "configured" /\ profile # <<>>)
    => \A k \in {"limit", "tokens", "mode", "security", "recent"} :
         options[k] = IF opts[k] # "undef" THEN opts[k] ELSE profile[1][k]


(***************************************************************************)
(* SpecPenalty: prioritizeFiles on lists that hold generated, minified and *)
(* test files                                                              *)
(***************************************************************************)
MaxPenaltyFiles == 12

\* the files the lists are drawn from: [dir, base, ext, size]
PenaltyCatalog ==
  <<[dir |-> "", base |-> "a.ts", ext |-> ".ts", size |-> 90],
    [dir |-> "", base |-> "a.test.ts", ext |-> ".ts", size |-> 90],
    [dir |-> "", base |-> "api.generated.ts", ext |-> ".ts", size |-> 90],
    [dir |-> "", base |-> "lib.min.js", ext |-> ".js", size |-> 90],
    [dir |-> "lib/", base |-> "a.test.ts", ext |-> ".ts", size |-> 90],
    [dir |-> "lib/", base |-> "a.ts", ext |-> ".ts", size |-> 2000],
    [dir |-> "lib/", base |-> "lib.min.js", ext |-> ".js", size |-> 90],
    [dir |-> "src/", base |-> "a.ts", ext |-> ".ts", size |-> 400],
    [dir |-> "src/", base |-> "api.gen.ts", ext |-> ".ts", size |-> 90],
    [dir |-> "src/__tests__/", base |-> "a.spec.ts", ext |-> ".ts", size |-> 90],
    [dir |-> "src/__tests__/", base |-> "lib.min.js", ext |-> ".js", size |-> 90],
    [dir |-> "src/generated/", base |-> "api.generated.ts", ext |-> ".ts",
     size |-> 90],
    [dir |-> "src/generated/", base |-> "lib.min.js", ext |-> ".js",
     size |-> 90]>>

PenaltyOptions ==
  {[processCommandLineOptions([DefaultOpts EXCEPT !.tokens = tk, !.recent = "7"])
      EXCEPT !.smart = TRUE] : tk \in {"0", "500", "100000"}}

InitPenalty ==
  /\ pc = "read"
  /\ opts = DefaultOpts
  /\ options \in PenaltyOptions
  /\ disk = <<>>
  /\ now = 0
  /\ files = <<>>
  /\ readableFiles = <<>>
  /\ fileStats = <<>>
  /\ skippedCount = 0
  /\ sortedIndices = <<>>
  /\ pos = 0
  /\ totalSize = 0
  /\ skippedFiles = 0
  /\ fileContents = <<>>
  /\ \E idx \in SUBSET (1..Len(PenaltyCatalog)) :
       /\ Cardinality(idx) <= MaxPenaltyFiles
       /\ LET chosen == SeqFilter(LAMBDA i : i \in idx,
                                  [i \in 1..Len(PenaltyCatalog) |-> i])
              FileOf(k) == Path(PenaltyCatalog[chosen[k]].dir,
                                PenaltyCatalog[chosen[k]].base,
                                PenaltyCatalog[chosen[k]].ext)
          IN /\ finalFiles = [k \in 1..Len(chosen) |-> FileOf(k)]
             /\ finalContents =
                  [k \in 1..Len(chosen) |->
                     <<Line("text", PenaltyCatalog[chosen[k]].size)>>]
             /\ finalStats =
                  [k \in 1..Len(chosen) |->
                     [path |-> FileOf(k),
                      size |-> PenaltyCatalog[chosen[k]].size,
                      tokens |-> CeilDiv(PenaltyCatalog[chosen[k]].size, 4)]]
  /\ processedFiles = <<>>
  /\ processedContents = <<>>
  /\ processedStats = <<>>
  /\ scoredFiles = <<>>
  /\ totalChars = 0
  /\ scoreLog = <<>>
  /\ output = NoOutput
  /\ reads = <<>>
  /\ readIdx = <<>>
  /\ bytesRead = 0
  /\ scored = FALSE
  /\ profile = <<>>

NextPenalty == Prioritize

SpecPenalty == InitPenalty /\ [][NextPenalty]_vars

\* no token budget is in effect, or the sizes of all the files fit it
NoBudgetOrAllFit ==
  \/ ~BudgetInEffect(options)
  \/ SumSeq([i \in 1..Len(finalStats) |-> finalStats[i].size])
       <= options.tokenLimitChars

\* C20: penalties only reorder.  With no token budget in effect, or with
\* every file fitting it, prioritizeFiles returns as many files as it was
\* given, each path of the input among them with its own content and stats,
\* however negative its score
C20_PenaltiesOnlyReorder ==
  (pc = "scored" /\ scored /\ NoBudgetOrAllFit)
    => /\ Len(processedFiles) = Len(finalFiles)
       /\ Len(processedContents) = Len(finalFiles)
       /\ Len(processedStats) = Len(finalFiles)
       /\ \A i \in 1..Len(finalFiles) :
            \E j \in 1..Len(processedFiles) :
              /\ processedFiles[j] = finalFiles[i]
              /\ processedContents[j] = finalContents[i]
              /\ processedStats[j] = finalStats[i]

\* under a budget that all the files fit, a file with a negative score is
\* ranked beyond the top K and is returned
C20_Witness ==
  /\ pc = "scored"
  /\ scored
  /\ BudgetInEffect(options)
  /\ NoBudgetOrAllFit
  /\ Len(scoredFiles) > TopK
  /\ scoredFiles[Len(scoredFiles)].score < 0
  /\ processedFiles[Len(processedFiles)] = scoredFiles[Len(scoredFiles)].file
  /\ processedFiles # finalFiles


(***************************************************************************)
(* SpecStrip: stripComments applied to one content built line by line,     *)
(* for a file of each language family and of none                          *)
(***************************************************************************)
MaxStripLines == 5

\* one extension of every branch of the rule table, and one outside it
StripExtensions == {".ts", ".py", ".rb", ".html", ".md"}

\* the lines a content is built from, by kind
StripLines ==
  {Line("text", 40), Line("blank", 0), Line("comment", 30),
   Line("slashsecret", 60), Line("dollardoc", 50)}

InitStrip ==
  /\ pc = "scored"
  /\ opts = [DefaultOpts EXCEPT !.mode = "code"]
  /\ options = processCommandLineOptions([DefaultOpts EXCEPT !.mode = "code"])
  /\ \E ext \in StripExtensions :
       /\ processedFiles = <<Path("src/", "unit" \o ext, ext)>>
       /\ processedStats = <<[path |-> Path("src/", "unit" \o ext, ext),
                              size |-> 0, tokens |-> 0]>>
  /\ processedContents = << <<>> >>
  /\ disk = <<>>
  /\ now = RunClock
  /\ files = <<>>
  /\ readableFiles = <<>>
  /\ fileStats = <<>>
  /\ skippedCount = 0
  /\ sortedIndices = <<>>
  /\ pos = 0
  /\ totalSize = 0
  /\ skippedFiles = 0
  /\ fileContents = <<>>
  /\ finalFiles = <<>>
  /\ finalContents = <<>>
  /\ finalStats = <<>>
  /\ scoredFiles = <<>>
  /\ totalChars = 0
  /\ scoreLog = <<>>
  /\ output = NoOutput
  /\ reads = <<>>
  /\ readIdx = <<>>
  /\ bytesRead = 0
  /\ scored = FALSE
  /\ profile = <<>>

\* the content grows by a line; pos counts the lines added
StripAddLine ==
  /\ pc = "scored"
  /\ pos < MaxStripLines
  /\ \E line \in StripLines :
       LET content == Append(processedContents[1], line) IN
       /\ processedContents' = <<content>>
       /\ processedStats' =
            [processedStats EXCEPT ![1].size = ByteLength(content),
                                   ![1].tokens = CeilDiv(ContentLength(content), 4)]
  /\ pos' = pos + 1
  /\ UNCHANGED <<pc, opts, options, disk, now, files, readableFiles,
                 fileStats, skippedCount, sortedIndices, totalSize,
                 skippedFiles, fileContents, finalFiles, finalContents,
                 finalStats, processedFiles, scoredFiles, totalChars,
                 scoreLog, output, reads, readIdx, bytesRead, scored,
                 profile>>

\* formatFileContent line 623: stripComments(content, ext); what it returns
\* is kept in fileContents
StripCall ==
  /\ pc = "scored"
  /\ pc' = "stripped"
  /\ fileContents' = <<stripComments(processedContents[1],
                                     processedFiles[1].ext)>>
  /\ UNCHANGED <<opts, options, disk, now, files, readableFiles, fileStats,
                 skippedCount, sortedIndices, pos, totalSize, skippedFiles,
                 finalFiles, finalContents, finalStats, processedFiles,
                 processedContents, processedStats, scoredFiles, totalChars,
                 scoreLog, output, reads, readIdx, bytesRead, scored,
                 profile>>

NextStrip == StripAddLine \/ StripCall

SpecStrip == InitStrip /\ [][NextStrip]_vars

\* the content holds the comment syntax of the language family of ext:
\* "//" or "/*" for the C-style extensions, "#" for .py and .rb, "<!--" for
\* markup; a "slashsecret" line holds "//" and none of the others
HasCommentSyntax(content, ext) ==
  \/ ext \in CommentFamilies /\ CountKind(content, {"comment"}) > 0
  \/ ext \in SlashFamilies /\ CountKind(content, {"slashsecret"}) > 0

\* C21: stripComments returns its input unchanged, apart from the
\* collapsing of runs of blank lines, for every content without the comment
\* syntax of the file's language family and for every extension outside
\* the rule table
C21_NoCommentSyntaxNoOp ==
  (pc = "stripped"
     /\ ~HasCommentSyntax(processedContents[1], processedFiles[1].ext))
    => fileContents[1] = CollapseBlank(processedContents[1], 1)


(***************************************************************************)
(* The statistics the Reader hands on (Spec)                               *)
(***************************************************************************)
\* C22: after pass 2 the size and the token count of every file handed to
\* the Scorer are recomputed from the content read: size is the content
\* length, tokens is ceil(content length / 4), and the Fitter's arithmetic
\* works with that size
C22_StatsRecomputedFromContent ==
  /\ pc = "read"
       => \A i \in 1..Len(finalFiles) :
            /\ finalStats[i].size = ContentLength(finalContents[i])
            /\ finalStats[i].tokens = CeilDiv(ContentLength(finalContents[i]), 4)
  /\ (pc = "scored" /\ scored)
       => \A i \in 1..Len(scoredFiles) :
            scoredFiles[i].stats.size = ContentLength(scoredFiles[i].content)


(***************************************************************************)
(* The reduced footprint in the budget walk (SpecFit)                      *)
(***************************************************************************)
\* the file ranked i in the sort is in the selection
FitAdmitted(i) ==
  \E k \in 1..Len(processedFiles) : processedFiles[k] = FitSorted[i].file

FitReducing == options.summarizeLargeFiles \/ options.truncateLargeFiles

\* the running total the walk holds when it comes to the file ranked i,
\* replayed from the selection: an admitted file counts at its true size
\* when that fitted and at min(size, 1500) otherwise
RECURSIVE FitRunningTotal(_)
FitRunningTotal(i) ==
  IF i <= Min(TopK, Len(FitSorted)) + 1 THEN FitTopBytes
  ELSE LET before == FitRunningTotal(i - 1)
           size == FitSorted[i - 1].stats.size
       IN IF ~FitAdmitted(i - 1) THEN before
          ELSE IF before + size <= options.tokenLimitChars
          THEN before + size
          ELSE before + Min(size, 1500)

\* the file ranked i, beyond the top K, overflows the ceiling at its true
\* size
FitOverflows(i) ==
  /\ i > TopK
  /\ FitRunningTotal(i) + FitSorted[i].stats.size > options.tokenLimitChars

\* C23 as stated: with summarizeLargeFiles or truncateLargeFiles enabled a
\* file beyond the top K that overflows the ceiling at its true size is
\* admitted anyway, and the total is charged min(size, 1500) for it
C23_OverflowAdmittedAnyway ==
  (FitDone /\ FitReducing) =>
    /\ \A i \in 1..Len(FitSorted) : FitOverflows(i) => FitAdmitted(i)
    /\ totalChars = FitRunningTotal(Len(FitSorted) + 1)

\* C23, amended: such a file is admitted exactly when the running total
\* plus min(size, 1500) stays within the ceiling, and the total is then
\* charged min(size, 1500) for it; otherwise it is left out
C23_OverflowAdmittedAtEstimateIfItFits ==
  (FitDone /\ FitReducing) =>
    /\ \A i \in 1..Len(FitSorted) :
         FitOverflows(i) =>
           (FitAdmitted(i) <=>
              FitRunningTotal(i) + Min(FitSorted[i].stats.size, 1500)
                <= options.tokenLimitChars)
    /\ totalChars = FitRunningTotal(Len(FitSorted) + 1)

\* the walk admitted a file larger than the estimate that overflowed at its
\* true size, and left out another one
C23_Witness ==
  /\ FitDone
  /\ FitReducing
  /\ \E i \in 1..Len(FitSorted) :
       FitOverflows(i) /\ FitAdmitted(i) /\ FitSorted[i].stats.size > 1500
  /\ \E i \in 1..Len(FitSorted) : FitOverflows(i) /\ ~FitAdmitted(i)


(***************************************************************************)
(* SpecShrink: whole runs on trees of more than ten files under a small    *)
(* token budget, from the command line to the assembled document           *)
(***************************************************************************)
MaxShrinkExtra == 2

\* ten small source files, which every tree holds
ShrinkSmall ==
  [i \in 1..10 |->
     DiskFile(Path("src/", FitBases[i], ".ts"), <<Line("text", 120)>>, TRUE,
              OldMtime)]

\* the larger files a tree may hold besides; outside the important folders
\* they score below the small ones
ShrinkLarge ==
  <<DiskFile(Path("scripts/", "g1.ts", ".ts"), <<Line("text", 2000)>>, TRUE,
             OldMtime),
    DiskFile(Path("scripts/", "g2.ts", ".ts"), <<Line("text", 3000)>>, TRUE,
             OldMtime),
    DiskFile(Path("scripts/", "g3.ts", ".ts"), <<Line("text", 3500)>>, TRUE,
             OldMtime),
    DiskFile(Path("scripts/", "g4.ts", ".ts"), <<Line("text", 5000)>>, TRUE,
             OldMtime)>>

InitShrink ==
  /\ pc = "start"
  /\ \E m \in {"auto", "code"}, tk \in {"0", "1000", "100000"} :
       opts = [DefaultOpts EXCEPT !.mode = m, !.tokens = tk]
  /\ options = DefaultOpts
  /\ \E idx \in SUBSET (1..Len(ShrinkLarge)) :
       /\ Cardinality(idx) <= MaxShrinkExtra
       /\ disk = ShrinkSmall
                   \o SeqFilter(LAMBDA f : \E i \in idx : ShrinkLarge[i] = f,
                                ShrinkLarge)
  /\ now = RunClock
  /\ files = <<>>
  /\ readableFiles = <<>>
  /\ fileStats = <<>>
  /\ skippedCount = 0
  /\ sortedIndices = <<>>
  /\ pos = 0
  /\ totalSize = 0
  /\ skippedFiles = 0
  /\ fileContents = <<>>
  /\ finalFiles = <<>>
  /\ finalContents = <<>>
  /\ finalStats = <<>>
  /\ processedFiles = <<>>
  /\ processedContents = <<>>
  /\ processedStats = <<>>
  /\ scoredFiles = <<>>
  /\ totalChars = 0
  /\ scoreLog = <<>>
  /\ output = NoOutput
  /\ reads = <<>>
  /\ readIdx = <<>>
  /\ bytesRead = 0
  /\ scored = FALSE
  /\ profile = <<>>

NextShrink ==
  \/ Configure
  \/ FindFiles
  \/ Pass1
  \/ Pass2Step
  \/ Finalize
  \/ Prioritize
  \/ SkipPrioritize
  \/ Assemble

SpecShrink == InitShrink /\ [][NextShrink]_vars

\* the file ranked i was admitted at the reduced estimate: it is beyond the
\* top K, it overflowed the ceiling at its true size and it is selected
AdmittedAtEstimate(i) == FitOverflows(i) /\ FitAdmitted(i)

\* the section of the document that renders this file
SectionOf(file) ==
  output.sections[CHOOSE k \in 1..Len(output.sections) :
                    output.sections[k].file = file]

\* C24: every file the Fitter admits at the reduced estimate is shrunk by
\* the Transformer before assembly: its section is shorter than its content
\* and no longer than the charged footprint plus a fixed overhead (taken
\* here as large as the estimate itself)
C24_AdmittedAtEstimateIsShrunk ==
  (pc = "assembled" /\ scored /\ BudgetInEffect(options)) =>
    \A i \in 1..Len(FitSorted) :
      AdmittedAtEstimate(i) =>
        LET rendered == ContentLength(SectionOf(FitSorted[i].file).content)
        IN /\ rendered < ContentLength(FitSorted[i].content)
           /\ rendered <= Min(FitSorted[i].stats.size, SummaryEstimate)
                            + SummaryEstimate


(***************************************************************************)
(* SpecPass1: configuration, discovery and pass 1 on trees that hold       *)
(* configuration files, files of equal size, an empty file and files at    *)
(* and above the maximum size, while files may disappear                   *)
(***************************************************************************)
MaxOrderFiles == 3

\* the files a tree is drawn from, in the order glob returns them
OrderCatalog ==
  <<DiskFile(Path("", "angular.json", ".json"), <<Line("text", 300)>>,
             TRUE, OldMtime),
    DiskFile(Path("", "deno.json", ".json"), <<Line("text", 300)>>, TRUE,
             OldMtime),
    DiskFile(Path("", "package.json", ".json"), <<Line("text", 600)>>, TRUE,
             OldMtime),
    DiskFile(Path("src/", "a.ts", ".ts"), <<Line("text", 300)>>, TRUE,
             OldMtime),
    DiskFile(Path("src/", "big.ts", ".ts"), <<Line("text", 60000)>>, TRUE,
             OldMtime),
    DiskFile(Path("src/", "edge.ts", ".ts"), <<Line("text", 1024)>>, TRUE,
             OldMtime),
    DiskFile(Path("src/", "empty.ts", ".ts"), <<>>, TRUE, OldMtime),
    DiskFile(Path("src/", "over.ts", ".ts"), <<Line("text", 1025)>>, TRUE,
             OldMtime),
    DiskFile(Path("", "tsconfig.json", ".json"), <<Line("text", 52000)>>,
             TRUE, OldMtime)>>

OrderTree(idx) ==
  SeqFilter(LAMBDA f : \E i \in idx : OrderCatalog[i] = f, OrderCatalog)

InitPass1 ==
  /\ pc = "start"
  /\ \E ms \in {"1", "500"}, mf \in {0, 2} :
       opts = [DefaultOpts EXCEPT !.maxFileSize = ms, !.maxFiles = mf]
  /\ options = DefaultOpts
  /\ \E idx \in SUBSET (1..Len(OrderCatalog)) :
       /\ Cardinality(idx) <= MaxOrderFiles
       /\ disk = OrderTree(idx)
  /\ now = RunClock
  /\ files = <<>>
  /\ readableFiles = <<>>
  /\ fileStats = <<>>
  /\ skippedCount = 0
  /\ sortedIndices = <<>>
  /\ pos = 0
  /\ totalSize = 0
  /\ skippedFiles = 0
  /\ fileContents = <<>>
  /\ finalFiles = <<>>
  /\ finalContents = <<>>
  /\ finalStats = <<>>
  /\ processedFiles = <<>>
  /\ processedContents = <<>>
  /\ processedStats = <<>>
  /\ scoredFiles = <<>>
  /\ totalChars = 0
  /\ scoreLog = <<>>
  /\ output = NoOutput
  /\ reads = <<>>
  /\ readIdx = <<>>
  /\ bytesRead = 0
  /\ scored = FALSE
  /\ profile = <<>>

NextPass1 ==
  \/ Configure
  \/ FindFiles
  \/ Vanish
  \/ Pass1

SpecPass1 == InitPass1 /\ [][NextPass1]_vars

\* the three keys of the preliminary order for the survivor with index a:
\* 0 for an always-priority name, 0 for a size under the small-file
\* threshold, and the size
OrderKey(a) ==
  <<IF readableFiles[a].base \in DEFAULT_INCLUDE_FILES THEN 0 ELSE 1,
    IF fileStats[a].size < 50 * 1024 THEN 0 ELSE 1,
    fileStats[a].size>>

\* lexicographic order of the keys
KeyBefore(k, l) ==
  \/ k[1] < l[1]
  \/ k[1] = l[1] /\ k[2] < l[2]
  \/ k[1] = l[1] /\ k[2] = l[2] /\ k[3] < l[3]

\* a comes before b in the stable sort by key of the survivors
OrderedBefore(a, b) ==
  \/ KeyBefore(OrderKey(a), OrderKey(b))
  \/ OrderKey(a) = OrderKey(b) /\ a < b

\* the sign of a number
Sign(n) == IF n < 0 THEN -1 ELSE IF n > 0 THEN 1 ELSE 0

\* the number of entries the list handed to pass 2 is cut to
Pass2ListLength ==
  Min(Len(readableFiles),
      IF options.maxFiles > 0 THEN options.maxFiles ELSE MAX_TOTAL_FILES)

\* C25: the pass-1 order is a stable sort by the key (always-priority name,
\* small before large, ascending size): the comparator is a consistent
\* total preorder that agrees with the key, survivors equal on all three
\* keys keep discovery order, and the list handed to pass 2 is the first
\* maxFiles entries of that order
C25_Pass1OrderIsStableSortByKey ==
  pc = "pass2" =>
    LET n == Len(readableFiles)
        Cmp(a, b) == Sign(Pass1Cmp(readableFiles, fileStats, a, b))
    IN /\ \A a, b \in 1..n :
            /\ Cmp(a, b) = -Cmp(b, a)
            /\ Cmp(a, b) < 0 <=> KeyBefore(OrderKey(a), OrderKey(b))
       /\ \A a, b, c \in 1..n :
            (Cmp(a, b) <= 0 /\ Cmp(b, c) <= 0) => Cmp(a, c) <= 0
       /\ Len(sortedIndices) = Pass2ListLength
       /\ \A p \in 1..Len(sortedIndices) : sortedIndices[p] \in 1..n
       /\ \A p, q \in 1..Len(sortedIndices) :
            p < q => OrderedBefore(sortedIndices[p], sortedIndices[q])
       /\ \A a \in Range(sortedIndices) :
            \A b \in (1..n) \ Range(sortedIndices) : OrderedBefore(a, b)

\* pass 1 handed over two of three survivors (discovery returns more than
\* maxFiles files when the high-priority ones alone outnumber it): an
\* always-priority file moved ahead of a file discovered before it, two
\* survivors are equal on all three keys, and the last of the order was cut
C25_Witness ==
  /\ pc = "pass2"
  /\ Len(readableFiles) = 3
  /\ Len(sortedIndices) = 2
  /\ sortedIndices[1] > sortedIndices[2]
  /\ \E a, b \in 1..Len(readableFiles) : a # b /\ OrderKey(a) = OrderKey(b)

\* the candidates of pass 1 (the files discovery returned, without those
\* the binary filter drops) that are on the disk with a size pass 1 keeps
Pass1Survivors ==
  SeqFilter(LAMBDA f : \E j \in 1..Len(disk) :
                         /\ disk[j].path = f
                         /\ disk[j].size > 0
                         /\ disk[j].size <= options.maxFileSizeBytes,
            SeqFilter(LAMBDA f : ~(options.skipBinary /\ isLikelyBinaryFile(f)),
                      files))

\* the candidates that are on the disk with more than the maximum size
Pass1TooLarge ==
  {i \in 1..Len(files) :
     /\ ~(options.skipBinary /\ isLikelyBinaryFile(files[i]))
     /\ \E j \in 1..Len(disk) :
          disk[j].path = files[i] /\ disk[j].size > options.maxFileSizeBytes}

\* C26: pass 1 keeps a candidate exactly when its stat succeeds and its
\* size is greater than zero and at most maxFileSizeBytes; a file dropped
\* for exceeding the maximum is counted in skippedCount; each survivor gets
\* the token estimate ceil(size/4), and the path and stat lists are
\* index-aligned
C26_Pass1KeepsExactlyTheSizedFiles ==
  [][(pc = "found" /\ pc' = "pass2") =>
       /\ readableFiles' = Pass1Survivors
       /\ skippedCount' = Cardinality(Pass1TooLarge)
       /\ Len(fileStats') = Len(readableFiles')
       /\ \A k \in 1..Len(readableFiles') :
            /\ fileStats'[k].path = readableFiles'[k]
            /\ fileStats'[k].size = OnDisk(disk, readableFiles'[k]).size
            /\ fileStats'[k].tokens = CeilDiv(fileStats'[k].size, 4)]_vars

\* pass 1 kept a file of exactly the maximum size, counted one above it and
\* dropped another candidate without counting it
C26_Witness ==
  /\ pc = "pass2"
  /\ pos = 0
  /\ \E k \in 1..Len(fileStats) : fileStats[k].size = options.maxFileSizeBytes
  /\ skippedCount = 1
  /\ Len(readableFiles) + skippedCount < Len(files)


(***************************************************************************)
(* SpecRecency: prioritizeFiles called on one file whose modification time *)
(* lies before, at or after the clock, with --recent absent, 0 or 7        *)
(***************************************************************************)
\* the modification times of the file, in hours, relative to the clock at
\* the start: within the last day, within and beyond fourteen days, and
\* later than the clock (a file written under another clock)
RecencyOffsets == {-2000, -336, -335, -100, -12, -11, -5, 0, 10, 30}

InitRecency ==
  /\ pc = "scoring"
  /\ \E m \in {"auto", "code"}, r \in {"undef", "0", "7"} :
       /\ opts = [DefaultOpts EXCEPT !.mode = m, !.recent = r]
       /\ options = processCommandLineOptions(
                      [DefaultOpts EXCEPT !.mode = m, !.recent = r])
  /\ \E off \in RecencyOffsets :
       disk = <<DiskFile(Path("src/", "a.ts", ".ts"), <<Line("text", 300)>>,
                         TRUE, RunClock + off)>>
  /\ finalFiles = <<Path("src/", "a.ts", ".ts")>>
  /\ finalContents = << <<Line("text", 300)>> >>
  /\ finalStats = <<[path |-> Path("src/", "a.ts", ".ts"), size |-> 300,
                     tokens |-> 75]>>
  /\ now = RunClock
  /\ files = <<>>
  /\ readableFiles = <<>>
  /\ fileStats = <<>>
  /\ skippedCount = 0
  /\ sortedIndices = <<>>
  /\ pos = 0
  /\ totalSize = 0
  /\ skippedFiles = 0
  /\ fileContents = <<>>
  /\ processedFiles = <<>>
  /\ processedContents = <<>>
  /\ processedStats = <<>>
  /\ scoredFiles = <<>>
  /\ totalChars = 0
  /\ scoreLog = <<>>
  /\ output = NoOutput
  /\ reads = <<>>
  /\ readIdx = <<>>
  /\ bytesRead = 0
  /\ scored = FALSE
  /\ profile = <<>>

NextRecency == ClockTick \/ TouchFile \/ ScoreCall

SpecRecency == InitRecency /\ [][NextRecency]_vars

\* the recency term of a logged score: the score less what the same file
\* scores when the recency term is left out
RecencyTerm(e) ==
  e.score - Score(finalFiles[1], finalContents[1], finalStats[1],
                  [options EXCEPT !.recent = "7"], e.clock, disk)

\* the age of the file at a logged call, in hours
AgeAt(e) == e.clock - e.mtime

\* discovery applies no recency filter under these options
NoRecentFilter ==
  ~Truthy(options.recent) \/ ~(ParseInt(options.recent) > 0)

\* C27: whenever discovery applied no recency filter (recent unset, or not
\* greater than 0, "0" included), the Scorer gives a file modified within
\* the last 14 days a recency bonus, and the bonus does not increase with
\* the age of the file
C27_BonusWheneverNoRecentFilter ==
  NoRecentFilter =>
    \A i \in 1..Len(scoreLog) :
      /\ (AgeAt(scoreLog[i]) >= 0 /\ AgeAt(scoreLog[i]) < 14 * 24)
           => RecencyTerm(scoreLog[i]) > 0
      /\ \A j \in 1..Len(scoreLog) :
           AgeAt(scoreLog[i]) <= AgeAt(scoreLog[j])
             => RecencyTerm(scoreLog[i]) >= RecencyTerm(scoreLog[j])

\* C30: the recency term the Scorer adds to a score is an integer between 0
\* and 30, for every modification time, one later than the clock included
C30_RecencyTermWithinRange ==
  \A i \in 1..Len(scoreLog) :
    /\ RecencyTerm(scoreLog[i]) >= 0
    /\ RecencyTerm(scoreLog[i]) <= 30


(***************************************************************************)
(* SpecSniff: discovery on trees of about a hundred source files and some  *)
(* files only the content check of the fallback can admit                  *)
(***************************************************************************)
\* how many source files a tree holds: below, at and above the bound of
\* the fallback
SniffSourceCounts == {99, 100, 101}

\* n source files, which discovery accepts by their extension
SniffSources(n) ==
  [i \in 1..n |->
     DiskFile(Path("src/", "f" \o ToString(i) \o ".ts", ".ts"),
              <<Line("text", 50)>>, TRUE, OldMtime)]

\* a file glob lists before the source files, whose extension is on no list
SniffFirst ==
  <<DiskFile(Path("aaa/", "first.lua", ".lua"), <<Line("import", 40)>>, TRUE,
             OldMtime)>>

\* files glob lists after the source files, whose extension is on no list
SniffLast ==
  <<DiskFile(Path("tools/", "big.lua", ".lua"), <<Line("text", 110000)>>,
             TRUE, OldMtime),
    DiskFile(Path("tools/", "x1.lua", ".lua"), <<Line("import", 40)>>, TRUE,
             OldMtime),
    DiskFile(Path("tools/", "x2.lua", ".lua"), <<Line("nonascii", 40)>>, TRUE,
             OldMtime)>>

InitSniff ==
  /\ pc = "start"
  /\ \E sa \in BOOLEAN : opts = [DefaultOpts EXCEPT !.scanAll = sa]
  /\ options = DefaultOpts
  /\ \E n \in SniffSourceCounts, first \in SUBSET {1},
        last \in SUBSET (1..Len(SniffLast)) :
       disk = SeqFilter(LAMBDA f : first # {}, SniffFirst)
                \o SniffSources(n)
                \o SeqFilter(LAMBDA f : \E i \in last : SniffLast[i] = f,
                             SniffLast)
  /\ now = RunClock
  /\ files = <<>>
  /\ readableFiles = <<>>
  /\ fileStats = <<>>
  /\ skippedCount = 0
  /\ sortedIndices = <<>>
  /\ pos = 0
  /\ totalSize = 0
  /\ skippedFiles = 0
  /\ fileContents = <<>>
  /\ finalFiles = <<>>
  /\ finalContents = <<>>
  /\ finalStats = <<>>
  /\ processedFiles = <<>>
  /\ processedContents = <<>>
  /\ processedStats = <<>>
  /\ scoredFiles = <<>>
  /\ totalChars = 0
  /\ scoreLog = <<>>
  /\ output = NoOutput
  /\ reads = <<>>
  /\ readIdx = <<>>
  /\ bytesRead = 0
  /\ scored = FALSE
  /\ profile = <<>>

NextSniff == Configure \/ FindFiles

SpecSniff == InitSniff /\ [][NextSniff]_vars

\* discovery read the content of the file for the check of the fallback
Sniffed(file) ==
  \E r \in 1..Len(reads) : reads[r] = ReadBy(file, "sniff")

\* how many files discovery accepted among those glob lists before the
\* i-th file of the tree
AcceptedBefore(i) ==
  Cardinality({j \in 1..(i - 1) : disk[j].path \in Range(files)})

\* C28: with scanAll unset, once 100 candidates have been accepted no
\* further file is sniffed or admitted through the fallback, in whichever
\* batch it lies
C28_FallbackStopsAtHundred ==
  (pc = "found" /\ ~options.scanAll) =>
    \A i \in 1..Len(disk) :
      Sniffed(disk[i].path) => AcceptedBefore(i) < 100


\* C29: when the candidates outnumber the configured maximum, findFiles
\* returns at most as many paths as the larger of the configured maximum
\* and the number of high-priority candidates
C29_CapBoundsTheResult ==
  (Discovered /\ Len(Candidates) > ConfiguredMax)
    => Len(files) <=
         Max(ConfiguredMax, Len(SeqFilter(IsHighPriorityMatch, Candidates)))

====
